---- MODULE Spec2Model ----
(***************************************************************************)
(* A model of machinevisiontoolbox/Camera.py: the Camera base class, the   *)
(* CentralCamera projection model and its calibration / two-view geometry. *)
(*                                                                         *)
(* numpy's float64 arrays are modelled by exact extended rationals: a      *)
(* number is a pair <<n, d>> in lowest terms with d > 0, or one of the     *)
(* IEEE specials <<1, 0>> (+inf), <<-1, 0>> (-inf), <<0, 0>> (NaN).        *)
(* Rounding error is not modelled; every input set below is chosen so that *)
(* the square roots taken by the QR factorisation are rational.            *)
(***************************************************************************)
EXTENDS Integers, Sequences, FiniteSets, TLC

(***************************************************************************)
(* Bounds of the model.                                                    *)
(***************************************************************************)
\* focal lengths range over 1..MaxF
MaxF == 2
\* the x coordinate of a world point ranges over -MaxCoord..MaxCoord
MaxCoord == 1

(***************************************************************************)
(* float64 arithmetic, as exact extended rationals.                        *)
(***************************************************************************)
\* `Let(e, Op)` is Op(e) with e computed once, as an assignment to a local
\* variable is; Let2 is the same for two values
Let(e, Op(_)) == CHOOSE r \in {Op(x) : x \in {e}} : TRUE

Let2(a, b, Op(_, _)) == CHOOSE r \in {Op(x, y) : x \in {a}, y \in {b}} : TRUE

Abs(i) == IF i < 0 THEN -i ELSE i

Sgn(i) == IF i < 0 THEN -1 ELSE IF i > 0 THEN 1 ELSE 0

RECURSIVE GCD(_, _)
GCD(a, b) == IF b = 0 THEN a ELSE GCD(b, a % b)

\* n/d in lowest terms, for d > 0 or d < 0
Reduce(n, d) ==
    Let(IF d < 0 THEN 0 - GCD(Abs(n), Abs(d)) ELSE GCD(Abs(n), Abs(d)), LAMBDA g :
        <<n \div g, d \div g>>)

\* the float n/d; x/0 is +-inf and 0/0 is NaN, as numpy divides
Frac(n, d) ==
    IF d = 0 THEN <<Sgn(n), 0>>
    ELSE IF d = 1 THEN <<n, 1>>
    ELSE IF n = 0 THEN <<0, 1>>
    ELSE Reduce(n, d)

Rat(i) == <<i, 1>>

NaN == <<0, 0>>

IsNaN(x) == x = NaN

IsFinite(x) == x[2] # 0

RNeg(x) == Let(x, LAMBDA a : <<0 - a[1], a[2]>>)

RAdd(x, y) ==
    Let2(x, y, LAMBDA a, b :
        IF IsNaN(a) \/ IsNaN(b) THEN NaN
        ELSE IF a[2] = 0 /\ b[2] = 0 THEN (IF a = b THEN a ELSE NaN)
        ELSE IF a[2] = 0 THEN a
        ELSE IF b[2] = 0 THEN b
        ELSE Frac(a[1] * b[2] + b[1] * a[2], a[2] * b[2]))

RSub(x, y) == RAdd(x, RNeg(y))

RMul(x, y) == Let2(x, y, LAMBDA a, b : Frac(a[1] * b[1], a[2] * b[2]))

\* 1/x: 1/0 = inf, 1/inf = 0, 1/NaN = NaN
RInv(x) ==
    Let(x, LAMBDA a :
        IF IsNaN(a) THEN NaN
        ELSE IF a[1] = 0 THEN <<1, 0>>
        ELSE IF a[2] = 0 THEN <<0, 1>>
        ELSE Frac(a[2], a[1]))

RDiv(x, y) == RMul(x, RInv(y))

\* x < y; every comparison with NaN is False
RLt(x, y) ==
    Let2(x, y, LAMBDA a, b :
        IF IsNaN(a) \/ IsNaN(b) THEN FALSE
        ELSE IF a[2] = 0 /\ b[2] = 0 THEN a[1] < b[1]
        ELSE a[1] * b[2] < b[1] * a[2])

\* x <= y
RLe(x, y) == Let2(x, y, LAMBDA a, b : ~IsNaN(a) /\ ~IsNaN(b) /\ ~RLt(b, a))

\* a sign that takes 0 as positive; with it in place of RSign,
\* C4_CentreAtInfinity is violated
RSignZeroPositive(x) == Let(x, LAMBDA a : IF IsNaN(a) THEN NaN ELSE IF a[1] < 0 THEN Rat(-1) ELSE Rat(1))

\* np.sign: -1, 0 or 1 (NaN for NaN)
RSign(x) == Let(x, LAMBDA a : IF IsNaN(a) THEN NaN ELSE Rat(Sgn(a[1])))

RAbs(x) == Let(x, LAMBDA a : IF RLt(a, Rat(0)) THEN RNeg(a) ELSE a)

ISqrt(n) == Let(n, LAMBDA m : CHOOSE k \in 0..m : k * k = m)

\* the square root of a finite square
RSqrt(x) == Let(x, LAMBDA a : <<ISqrt(a[1]), ISqrt(a[2])>>)

(***************************************************************************)
(* numpy arrays: a vector is a sequence of numbers, a matrix a sequence of *)
(* rows.                                                                   *)
(***************************************************************************)
\* an array as an explicit tuple, so that its elements are computed once
Tup(f) == f \o <<>>

\* the n-vector of elements f(i), and the n x m matrix of elements f(i, j)
Vector(n, f(_)) == Tup([i \in 1..n |-> f(i)])

Matrix(n, m, f(_, _)) == Tup([i \in 1..n |-> Tup([j \in 1..m |-> f(i, j)])])

RECURSIVE DotUpTo(_, _, _)
DotUpTo(a, b, k) ==
    IF k = 0 THEN Rat(0)
    ELSE IF k = 1 THEN RMul(a[1], b[1])
    ELSE RAdd(DotUpTo(a, b, k - 1), RMul(a[k], b[k]))

\* a @ b for two vectors
Dot(a, b) == Let2(a, b, LAMBDA x, y : DotUpTo(x, y, Len(x)))

Col(A, j) == Let(A, LAMBDA X : Vector(Len(X), LAMBDA i : X[i][j]))

\* A.T
Transpose(A) == Let(A, LAMBDA X : Matrix(Len(X[1]), Len(X), LAMBDA j, i : X[i][j]))

\* A @ B
MatMul(A, B) ==
    Let2(A, Transpose(B), LAMBDA X, Yt :
        Matrix(Len(X), Len(Yt), LAMBDA i, j : Dot(X[i], Yt[j])))

\* A @ v for a vector v
MatVec(A, v) == Let2(A, v, LAMBDA X, y : Vector(Len(X), LAMBDA i : Dot(X[i], y)))

\* s * A and A / s, elementwise
Scale(s, A) ==
    Let2(s, A, LAMBDA r, X : Matrix(Len(X), Len(X[1]), LAMBDA i, j : RMul(r, X[i][j])))

ScaleVec(s, v) == Let2(s, v, LAMBDA r, y : Vector(Len(y), LAMBDA i : RMul(r, y[i])))

DivMat(A, s) ==
    Let2(A, s, LAMBDA X, r : Matrix(Len(X), Len(X[1]), LAMBDA i, j : RDiv(X[i][j], r)))

NegVec(v) == Let(v, LAMBDA y : Vector(Len(y), LAMBDA i : RNeg(y[i])))

\* A[::-1, ::-1]
Flip(A) ==
    Let(A, LAMBDA X :
        Matrix(Len(X), Len(X[1]), LAMBDA i, j : X[Len(X) + 1 - i][Len(X[1]) + 1 - j]))

\* np.eye(n, m)
Eye(n, m) == Matrix(n, m, LAMBDA i, j : IF i = j THEN Rat(1) ELSE Rat(0))

\* np.diag(v) of a 3-vector, and np.diag(A) of a matrix
DiagMat(v) ==
    Let(v, LAMBDA y : Matrix(Len(y), Len(y), LAMBDA i, j : IF i = j THEN y[i] ELSE Rat(0)))

DiagOf(A) == Let(A, LAMBDA X : Vector(Len(X), LAMBDA i : X[i][i]))

\* the cofactor of X[i][j] in a 3x3 matrix
Cofactor(X, i, j) ==
    LET r == IF i = 1 THEN <<2, 3>> ELSE IF i = 2 THEN <<3, 1>> ELSE <<1, 2>>
        c == IF j = 1 THEN <<2, 3>> ELSE IF j = 2 THEN <<3, 1>> ELSE <<1, 2>>
    IN  RSub(RMul(X[r[1]][c[1]], X[r[2]][c[2]]), RMul(X[r[1]][c[2]], X[r[2]][c[1]]))

\* np.linalg.det of a 3x3 matrix
Det3(A) ==
    Let(A, LAMBDA X :
        RAdd(RAdd(RMul(X[1][1], Cofactor(X, 1, 1)), RMul(X[1][2], Cofactor(X, 1, 2))),
             RMul(X[1][3], Cofactor(X, 1, 3))))

\* np.linalg.inv of a 3x3 matrix (adjugate over determinant)
Inv3(A) ==
    Let(A, LAMBDA X :
        Let(Det3(X), LAMBDA d :
            Matrix(3, 3, LAMBDA i, j : RDiv(Cofactor(X, j, i), d))))

\* base.skew(v): the cross-product matrix of a 3-vector
Skew(v) ==
    Let(v, LAMBDA y :
        << <<Rat(0), RNeg(y[3]), y[2]>>,
           <<y[3], Rat(0), RNeg(y[1])>>,
           <<RNeg(y[2]), y[1], Rat(0)>> >>)

\* base.e2h of a point: append 1
E2H(p) == Append(p, Rat(1))

\* base.h2e of a homogeneous point: divide by the last element and drop it
H2E(x) == Let(x, LAMBDA y : Vector(Len(y) - 1, LAMBDA i : RDiv(y[i], y[Len(y)])))

(***************************************************************************)
(* spatialmath.SE3: a rigid transform, kept as its rotation and            *)
(* translation.                                                            *)
(***************************************************************************)
\* SE3.Rt(R, t)
SE3Rt(R, t) == [R |-> R, t |-> t]

\* T.inv(): (R, t) -> (R.T, -R.T @ t)
SE3Inv(T) ==
    Let2(Transpose(T.R), T.t, LAMBDA Rt, t : [R |-> Rt, t |-> NegVec(MatVec(Rt, t))])

\* A * B
SE3Mul(A, B) ==
    Let2(A, B, LAMBDA X, Y :
        Let(MatVec(X.R, Y.t), LAMBDA Rt :
            [R |-> MatMul(X.R, Y.R),
             t |-> Vector(3, LAMBDA i : RAdd(Rt[i], X.t[i]))]))

\* T.A: the 4x4 homogeneous matrix
SE3A(T) ==
    Let(T, LAMBDA X :
        Matrix(4, 4, LAMBDA i, j :
            IF i <= 3 /\ j <= 3 THEN X.R[i][j]
            ELSE IF i <= 3 THEN X.t[i]
            ELSE IF j = 4 THEN Rat(1) ELSE Rat(0)))

\* base.isrot: orthonormal with determinant +1
IsRot(R) == Let(R, LAMBDA X : MatMul(X, Transpose(X)) = Eye(3, 3) /\ Det3(X) = Rat(1))

(***************************************************************************)
(* numpy.linalg: qr, svd, isclose, as decomposeC uses them.                *)
(***************************************************************************)
\* sum of x[i]^2 for i in lo..3
RECURSIVE SumSq(_, _)
SumSq(x, lo) == IF lo > 3 THEN Rat(0) ELSE RAdd(RMul(x[lo], x[lo]), SumSq(x, lo + 1))

\* the reflector I - 2 w w.T / (w.T w)
Reflector(w) ==
    Let2(w, Dot(w, w), LAMBDA y, ww :
        Matrix(3, 3, LAMBDA i, j :
            RSub(IF i = j THEN Rat(1) ELSE Rat(0),
                 RDiv(RMul(Rat(2), RMul(y[i], y[j])), ww))))

\* the Householder reflector that zeroes column k of A below the diagonal
\* (the identity when that part of the column is already zero)
Householder(A, k) ==
    Let(Col(A, k), LAMBDA x :
        IF SumSq(x, k + 1) = Rat(0) THEN Eye(3, 3)
        ELSE Let(RSqrt(SumSq(x, k)), LAMBDA norm :
                 Let(IF RLt(x[k], Rat(0)) THEN norm ELSE RNeg(norm), LAMBDA beta :
                     Reflector(Vector(3, LAMBDA i : IF i < k THEN Rat(0)
                                                     ELSE IF i = k THEN RSub(x[k], beta)
                                                     ELSE x[i])))))

\* the sign conventions a QR routine may follow: A = (Q D)(D R) for every
\* diagonal D of +-1
QRSigns == {<<Rat(a), Rat(b), Rat(c)>> : a \in {-1, 1}, b \in {-1, 1}, c \in {-1, 1}}

\* np.linalg.qr(A) of a 3x3 matrix, with sign convention D
qr(A, D) ==
    Let2(A, DiagMat(D), LAMBDA X, Dm :
        Let(Householder(X, 1), LAMBDA H1 :
            Let(MatMul(H1, X), LAMBDA A1 :
                Let(Householder(A1, 2), LAMBDA H2 :
                    [Q |-> MatMul(MatMul(H1, H2), Dm),
                     R |-> MatMul(Dm, MatMul(H2, A1))]))))

\* the 3x3 matrix of columns a, b, c of a 3x4 matrix
Minor(Cm, a, b, c) == Vector(3, LAMBDA i : <<Cm[i][a], Cm[i][b], Cm[i][c]>>)

\* np.linalg.svd(C): the last right-singular vector of a rank-3 3x4 matrix,
\* which spans its null space; given here up to the scale that the division
\* by its last element removes
SvdLastV(Cm) ==
    Let(Cm, LAMBDA X :
        << Det3(Minor(X, 2, 3, 4)),
           RNeg(Det3(Minor(X, 1, 3, 4))),
           Det3(Minor(X, 1, 2, 4)),
           RNeg(Det3(Minor(X, 1, 2, 3))) >>)

\* np.isclose(a, b): |a - b| <= atol + rtol * |b|, atol = 1e-8, rtol = 1e-5
\* (both sides multiplied by 1e5)
IsClose(a, b) ==
    Let2(a, b, LAMBDA x, y :
        RLe(RMul(Rat(100000), RAbs(RSub(x, y))), RAdd(Frac(1, 1000), RAbs(y))))

(***************************************************************************)
(* class Camera and class CentralCamera.  A camera object is a record of   *)
(* its attributes; None, and an omitted optional argument, is the empty    *)
(* sequence, and a given optional argument v is <<v>>.  A str is the       *)
(* sequence of its parts, so that "+" is concatenation.                    *)
(***************************************************************************)
None == <<>>

\* a test that lets every length through; with it in place of IsVec12,
\* C30_FailedAssignments is violated
AnyLength(v) == TRUE

\* base.getvector followed by the 1- or 2-element test of the setters
IsVec12(v) == Len(v) = 1 \/ Len(v) = 2

Both(v) == IF Len(v) = 1 THEN <<v[1], v[1]>> ELSE v

\* Camera.imagesize setter, for a 1- or 2-element npix
set_imagesize(c, npix) ==
    Let2(c, Both(npix), LAMBDA self, size :
        [self EXCEPT !.imagesize = size,
                     !.pp = IF self.pp = None
                            THEN <<RDiv(size[1], Rat(2)), RDiv(size[2], Rat(2))>>
                            ELSE self.pp])

\* Camera.pp setter, for a 1- or 2-element pp
set_pp(c, pp) == [c EXCEPT !.pp = Both(pp)]

\* CentralCamera.f setter, for a 1- or 2-element f
set_f(c, f) == [c EXCEPT !.fu = f[1], !.fv = IF Len(f) = 1 THEN f[1] ELSE f[2]]

\* isinstance(x, str), for a value kept with its Python type
IsStr(x) == x.type = "str"

\* Camera.name and Camera.camtype setters, for a string
set_name(c, newname) == [c EXCEPT !.name = newname.value]

set_camtype(c, newcamtype) == [c EXCEPT !.camtype = newcamtype.value]

\* Camera.pose setter
set_pose(c, newpose) == [c EXCEPT !.pose = newpose]

SE3Identity == SE3Rt(Eye(3, 3), <<Rat(0), Rat(0), Rat(0)>>)

\* Camera.__init__ (fu and fv are set by CentralCamera.__init__)
Camera_init(name, camtype, rho, imagesize, pp, pose) ==
    set_imagesize(
        [name      |-> IF name = None THEN camtype ELSE name[1],
         camtype   |-> camtype,
         rhou      |-> rho[1],
         rhov      |-> IF Len(rho) = 1 THEN rho[1] ELSE rho[2],
         pp        |-> pp,
         imagesize |-> None,
         pose      |-> IF pose = None THEN SE3Identity ELSE pose[1],
         noise     |-> None,
         ax        |-> None,
         fu        |-> None,
         fv        |-> None],
        imagesize)

\* CentralCamera.__init__
CentralCamera(f, name, rho, imagesize, pp, pose) ==
    set_f(Camera_init(name, <<"perspective">>, rho, imagesize, pp, pose), f)

\* CentralCamera.K
K(c) ==
    Let(c, LAMBDA self :
        << <<RDiv(self.fu, self.rhou), Rat(0), self.pp[1]>>,
           <<Rat(0), RDiv(self.fv, self.rhov), self.pp[2]>>,
           <<Rat(0), Rat(0), Rat(1)>> >>)

\* the camera matrix for the own pose whatever T is given; with it in place
\* of C, C25_CameraMatrixCurrent is violated
COfOwnPose(c, T) == MatMul(MatMul(K(c), Eye(3, 4)), SE3A(SE3Inv(c.pose)))

\* CentralCamera.C(T)
C(c, T) ==
    LET pose == IF T = None THEN c.pose ELSE T[1]
    IN  MatMul(MatMul(K(c), Eye(3, 4)), SE3A(SE3Inv(pose)))

\* Camera.add_noise_distortion: the cameras of this model have noise = None
add_noise_distortion(c, uv) == uv

\* x = C @ P for one column P, made homogeneous and moved by objpose
image_homogeneous(Cm, P, objpose) ==
    LET Ph == IF Len(P) = 3 THEN E2H(P) ELSE P
        Po == IF objpose = None THEN Ph ELSE MatVec(SE3A(objpose[1]), Ph)
    IN  MatVec(Cm, Po)

\* no point is behind the camera; with it in place of BehindCamera,
\* C5_BehindSentinel is violated
NeverBehind(x) == FALSE

\* the test x[2, :] < 0 that marks a point as behind the camera
BehindCamera(x) == RLt(x[3], Rat(0))

\* one column of CentralCamera.project_point: the image point of P
project_column(c, Cm, P, objpose, behind) ==
    Let(image_homogeneous(Cm, P, objpose), LAMBDA x :
        add_noise_distortion(c,
            H2E(IF behind /\ BehindCamera(x) THEN <<x[1], x[2], NaN>> ELSE x)))

\* a visibility test whose upper bounds are inclusive; with it in place of
\* is_visible, C6_VisibilityFlag is violated
is_visible_inclusive(c, x) ==
    /\ ~IsNaN(x[1])
    /\ RLe(Rat(0), x[1])
    /\ RLe(Rat(0), x[2])
    /\ RLe(x[1], c.imagesize[1])
    /\ RLe(x[2], c.imagesize[2])

\* the visibility test of CentralCamera.project_point for one image point
is_visible(c, x) ==
    /\ ~IsNaN(x[1])
    /\ RLe(Rat(0), x[1])
    /\ RLe(Rat(0), x[2])
    /\ RLt(x[1], c.imagesize[1])
    /\ RLt(x[2], c.imagesize[2])

\* CentralCamera.project_point(P, pose, objpose, behind, visibility): P is
\* the sequence of the columns of the array
project_point(c, P, pose, objpose, behind, visibility) ==
    Let(C(c, pose), LAMBDA Cm :
        Let(Vector(Len(P), LAMBDA i : project_column(c, Cm, P[i], objpose, behind)),
            LAMBDA x :
                [x       |-> x,
                 visible |-> IF visibility
                             THEN Vector(Len(P), LAMBDA i : is_visible(c, x[i]))
                             ELSE None]))

(***************************************************************************)
(* CentralCamera.decomposeC                                                *)
(***************************************************************************)
\* the determinant fix of rq: the first column of U and the first row of Q
\* change sign when det(Q) < 0
FixDet(U, Q) ==
    IF RLt(Det3(Q), Rat(0))
    THEN [U |-> Matrix(3, 3, LAMBDA i, j : IF j = 1 THEN RNeg(U[i][j]) ELSE U[i][j]),
          Q |-> Matrix(3, 3, LAMBDA i, j : IF i = 1 THEN RNeg(Q[i][j]) ELSE Q[i][j])]
    ELSE [U |-> U, Q |-> Q]

\* the nested rq(S): S = U @ Q with U upper-triangular and det(Q) > 0
rq(S, D) ==
    Let(qr(Flip(Transpose(S)), D), LAMBDA QU :
        Let2(Flip(Transpose(QU.R)), Flip(Transpose(QU.Q)), LAMBDA U, Q : FixDet(U, Q)))

\* np.diag(np.sign(np.diag(K)))
SignMatrix(Km) == Let(Km, LAMBDA X : DiagMat(Vector(3, LAMBDA i : RSign(X[i][i]))))

\* no guard on the sign correction; with it in place of SignsCorrectable,
\* C3_NoImproperRotation is violated
SignsUnchecked(Cs) == TRUE

\* the guard of the sign correction: True when decomposeC goes on
SignsCorrectable(Cs) == IsClose(Det3(Cs), Rat(1))

\* the aspect ratio decomposeC passes as the pixel pitch
PixelPitch(Kn) == <<Rat(1), RDiv(Kn[2][2], Kn[1][1])>>

\* the pose without the transpose; with it in place of PoseOfRt,
\* C2_RoundTripPose is violated
PoseOfRtUntransposed(R, t) == SE3Rt(R, t)

\* the pose decomposeC gives the camera: SE3.Rt(R.T, t)
PoseOfRt(R, t) == SE3Rt(Transpose(R), t)

\* CentralCamera.decomposeC(C); D is the sign convention of np.linalg.qr.
\* The record holds the exception raised or the camera returned, and the
\* locals t, C (as Cs), K and R at that point.
decomposeC(Cin, D) ==
    IF ~(Len(Cin) = 3 /\ Len(Cin[1]) = 4)
    THEN [outcome |-> "ValueError", camera |-> None]
    ELSE
    Let(SvdLastV(Cin), LAMBDA v :
    Let(<<RDiv(v[1], v[4]), RDiv(v[2], v[4]), RDiv(v[3], v[4])>>, LAMBDA t :
    Let(rq(Vector(3, LAMBDA i : <<Cin[i][1], Cin[i][2], Cin[i][3]>>), D), LAMBDA KR :
    Let(SignMatrix(KR.U), LAMBDA Cs :
        IF ~SignsCorrectable(Cs)
        THEN [outcome |-> "RuntimeError", camera |-> None,
              v4 |-> v[4], t |-> t, Cs |-> Cs, K |-> KR.U, R |-> KR.Q]
        ELSE
        Let2(MatMul(KR.U, Cs), MatMul(Transpose(Cs), KR.Q), LAMBDA K1, R1 :
        Let(DivMat(K1, K1[3][3]), LAMBDA Kn :
            [outcome |-> "ok",
             camera  |-> CentralCamera(<<Kn[1][1]>>, <<<<"invC">>>>, PixelPitch(Kn),
                                       <<Rat(1024), Rat(1024)>>,
                                       <<Kn[1][3], Kn[2][3]>>,
                                       <<PoseOfRt(R1, t)>>),
             v4 |-> v[4], t |-> t, Cs |-> Cs, K |-> Kn, R |-> R1]))))))

(***************************************************************************)
(* CentralCamera.H, E and F.  The type of the argument `other` is given by *)
(* `kind`: "CentralCamera", "SE3", "ndarray" (a 3x3 array) or anything     *)
(* else.                                                                   *)
(***************************************************************************)
\* the test on the plane distance that opens CentralCamera.H
BadDistance(d) == RLt(d, Rat(0))

\* a test that takes N[2] = 0 as bad too; with it in place of BadNormal,
\* C11_NormalTest is violated
BadNormalInclusive(N) == RLe(N[3], Rat(0))

\* the test on the plane normal in CentralCamera.H
BadNormal(N) == RLt(N[3], Rat(0))

\* CentralCamera.H(T, N, d), with d a Python float
H(c, T, N, d) ==
    IF BadDistance(d) THEN [outcome |-> "ValueError", divided |-> FALSE]
    ELSE IF BadNormal(N) THEN [outcome |-> "ValueError", divided |-> FALSE]
    ELSE IF d = Rat(0) THEN [outcome |-> "ZeroDivisionError", divided |-> TRUE]
    ELSE
    Let(SE3Inv(T), LAMBDA Ti :
    Let(Dot(ScaleVec(RDiv(Rat(1), d), Ti.t), N), LAMBDA tN :
    Let(Matrix(3, 3, LAMBDA i, j : RAdd(Ti.R[i][j], tN)), LAMBDA HH :
    Let(MatMul(MatMul(K(c), HH), Inv3(K(c))), LAMBDA HK :
        [outcome |-> "ok", divided |-> TRUE, value |-> DivMat(HK, HK[3][3])]))))

\* the argument taken as it is; with it in place of RelativePoseOfSE3,
\* C9_EUsesInverseOfT is violated
RelativePoseDirect(T) == T

\* the relative pose of the first view in the second, reversed; with it in
\* place of RelativePoseOfCameras, C7_EpipolarConstraint is violated
RelativePoseReversed(c, other) == SE3Mul(SE3Inv(c.pose), other.pose)

\* the relative pose CentralCamera.E takes for an SE3 argument
RelativePoseOfSE3(T) == SE3Inv(T)

\* the relative pose CentralCamera.E takes for a second camera
RelativePoseOfCameras(c, other) == SE3Mul(SE3Inv(other.pose), c.pose)

\* CentralCamera.E(other)
E(c, kind, other) ==
    IF kind = "ndarray"
    THEN [outcome |-> "ok", value |-> MatMul(MatMul(Transpose(K(c)), other), K(c))]
    ELSE IF kind \notin {"CentralCamera", "SE3"}
    THEN [outcome |-> "ValueError"]
    ELSE
    Let(IF kind = "CentralCamera"
        THEN RelativePoseOfCameras(c, other)
        ELSE RelativePoseOfSE3(other),
        LAMBDA T21 : [outcome |-> "ok", value |-> MatMul(Skew(T21.t), T21.R)])

\* the camera's own intrinsics on the left for every argument; with it in
\* place of FLeftK, C8_EssentialFundamental is violated
FLeftKOwn(c, kind, other) == K(c)

\* the intrinsic matrices CentralCamera.F puts left and right of E
FLeftK(c, kind, other) == IF kind = "SE3" THEN K(c) ELSE K(other)

FRightK(c, kind, other) == K(c)

\* CentralCamera.F(other)
F(c, kind, other) ==
    IF kind \notin {"CentralCamera", "SE3"}
    THEN [outcome |-> "ValueError"]
    ELSE [outcome |-> "ok",
          value   |-> MatMul(MatMul(Transpose(Inv3(FLeftK(c, kind, other))),
                                    E(c, kind, other).value),
                             Inv3(FRightK(c, kind, other)))]

\* the number of dimensions of the array S of singular values that
\* np.linalg.svd returns
SvdSNdim == 1

\* CentralCamera.invH(H, K).  `S[1, 1]` indexes the 1-D array S with two
\* indices, which raises IndexError; the record holds the local H at that
\* point.  What follows in the code ends in `return False` on every path.
invH(c, Hm, Kopt) ==
    Let(IF Kopt = None THEN Eye(3, 3) ELSE Kopt[1], LAMBDA Kk :
        Let(MatMul(MatMul(Inv3(Kk), Hm), Kk), LAMBDA H1 :
            IF SvdSNdim < 2
            THEN [outcome |-> "IndexError", value |-> None, H |-> H1]
            ELSE [outcome |-> "ok", value |-> FALSE, H |-> H1]))

\* the list `possibles` of decomposeE, for the (R1, R2, t) that
\* cv.decomposeEssentialMat returned
Possibles(dec) ==
    << <<dec.R1, dec.t>>, <<dec.R1, NegVec(dec.t)>>,
       <<dec.R2, dec.t>>, <<dec.R2, NegVec(dec.t)>> >>

\* pose = SE3.Rt(Rt[0], Rt[1]).inv()
CandidatePose(Rt) == SE3Inv(SE3Rt(Rt[1], Rt[2]))

\* the test of a candidate, with every candidate taken as good; with it in
\* place of GoodCandidate, C16_NoPoseWhenAllBehind is violated
AnyCandidate(c, pose, P) == TRUE

\* the test of a candidate in decomposeE: P is not projected to NaN
GoodCandidate(c, pose, P) ==
    ~IsNaN(project_point(c, <<P>>, <<pose>>, None, TRUE, FALSE).x[1][1])

\* the loop of decomposeE from candidate i on: the first good pose, or None
\* when the loop ends
RECURSIVE FirstGood(_, _, _, _)
FirstGood(c, possibles, P, i) ==
    IF i > Len(possibles) THEN None
    ELSE Let(CandidatePose(possibles[i]), LAMBDA pose :
            IF GoodCandidate(c, pose, P) THEN <<pose>>
            ELSE FirstGood(c, possibles, P, i + 1))

\* CentralCamera.decomposeE(E, P) for a world point P (an ndarray); dec is
\* what cv.decomposeEssentialMat(E) returned
decomposeE(c, dec, P) == FirstGood(c, Possibles(dec), P, 1)

\* CentralCamera.decomposeE(E, P) for a Match object P; Rt is the (R, t) that
\* cv.recoverPose returned
decomposeE_match(c, Rt) == <<SE3Inv(SE3Rt(Rt[1], Rt[2]))>>

(***************************************************************************)
(* CentralCamera.visjac_p: uv is the sequence of the columns of the array, *)
(* Z the vector base.getvector makes of the depths (a scalar is a vector   *)
(* of one element).                                                        *)
(***************************************************************************)
\* a length test that lets a longer Z through (zip would drop the depths
\* left over); with it in place of ZLengthAccepted, C18_MismatchedDepths is
\* violated
ZNotShorter(Z, n) == Len(Z) = 1 \/ Len(Z) >= n

\* the lengths of Z that visjac_p accepts for n columns: the two branches
\* that do not raise
ZLengthAccepted(Z, n) == Len(Z) = 1 \/ Len(Z) = n

\* depths in which the first one is used for every point; with it in place
\* of Depths, C17_StackedJacobian is violated
FirstDepthOnly(Z, n) == Vector(n, LAMBDA i : Z[1])

\* the depths zip pairs with the n columns: np.repeat(Z, n) of a single
\* depth, else Z itself
Depths(Z, n) == IF Len(Z) = 1 THEN Vector(n, LAMBDA i : Z[1]) ELSE Z

\* the pixel coordinates taken as they are; with it in place of
\* NormalisedCoords, C19_PrincipalPointBlock is violated
PixelCoords(Kinv, p) == E2H(p)

\* xy = Kinv @ base.e2h(p)
NormalisedCoords(Kinv, p) == MatVec(Kinv, E2H(p))

\* the 2x6 array that K[:2,:2] multiplies, for the point (x, y) at depth z
InteractionMatrix(x, y, z) ==
    << <<RNeg(RDiv(Rat(1), z)), Rat(0), RDiv(x, z), RMul(x, y),
         RNeg(RAdd(Rat(1), RMul(x, x))), y>>,
       <<Rat(0), RNeg(RDiv(Rat(1), z)), RDiv(y, z),
         RAdd(Rat(1), RMul(y, y)), RNeg(RMul(x, y)), RNeg(x)>> >>

\* K[:2,:2]
K22(Kk) == << <<Kk[1][1], Kk[1][2]>>, <<Kk[2][1], Kk[2][2]>> >>

\* Lp, the Jacobian of one point p at depth z
visjac_block(Kk, Kinv, z, p) ==
    Let(NormalisedCoords(Kinv, p), LAMBDA xy :
        MatMul(K22(Kk), InteractionMatrix(xy[1], xy[2], z)))

\* CentralCamera.visjac_p(uv, Z)
visjac_p(c, uv, Z) ==
    IF ~ZLengthAccepted(Z, Len(uv))
    THEN [outcome |-> "ValueError", value |-> None]
    ELSE Let2(K(c), Depths(Z, Len(uv)), LAMBDA Kk, Zs :
            Let(Inv3(Kk), LAMBDA Kinv :
                Let(Vector(Len(uv), LAMBDA i : visjac_block(Kk, Kinv, Zs[i], uv[i])),
                    LAMBDA Lp :
                        [outcome |-> "ok",
                         value   |-> Vector(2 * Len(uv), LAMBDA r :
                                        Lp[(r + 1) \div 2][2 - (r % 2)])])))

(***************************************************************************)
(* CentralCamera.plucker, and spatialmath.Line3: a line is kept as its     *)
(* Plucker coordinates, the moment v and the direction w.                  *)
(***************************************************************************)
\* np.cross(a, b) of two 3-vectors
Cross(a, b) ==
    Let2(a, b, LAMBDA x, y :
        <<RSub(RMul(x[2], y[3]), RMul(x[3], y[2])),
          RSub(RMul(x[3], y[1]), RMul(x[1], y[3])),
          RSub(RMul(x[1], y[2]), RMul(x[2], y[1]))>>)

\* Line3.PointDir(point, dir): the line through point in direction dir
PointDir(point, dir) == [v |-> Cross(dir, point), w |-> dir]

\* C[:3, :3]
Left3(Cm) == Matrix(3, 3, LAMBDA i, j : Cm[i][j])

\* the point Mi @ v, without the sign; with it in place of RayOrigin,
\* C20_RayThroughCentreAndPoint is violated
RayOriginUnsigned(Mi, v) == MatVec(Mi, v)

\* -Mi @ v, the point the rays of plucker start from
RayOrigin(Mi, v) == NegVec(MatVec(Mi, v))

\* the direction taken with the transpose of Mi; with it in place of
\* RayDirection, C21_DirectionInWorldFrame is violated
RayDirectionTransposed(Mi, p) == MatVec(Transpose(Mi), E2H(p))

\* Mi @ smb.e2h(point), the direction of the ray of an image point
RayDirection(Mi, p) == MatVec(Mi, E2H(p))

\* CentralCamera.plucker(points): points is the sequence of the columns of
\* the array, the value the sequence of the lines
plucker(c, points) ==
    Let(C(c, None), LAMBDA Cm :
        Let2(Inv3(Left3(Cm)), Col(Cm, 4), LAMBDA Mi, v :
            Let(RayOrigin(Mi, v), LAMBDA origin :
                Vector(Len(points), LAMBDA i :
                    PointDir(origin, RayDirection(Mi, points[i]))))))

(***************************************************************************)
(* CentralCamera.points2C: P and p are the sequences of the columns of the *)
(* arrays.                                                                 *)
(***************************************************************************)
\* the two rows of A for the image point uv of the world point X
CalibrationRows(uv, X) ==
    Let2(uv, X, LAMBDA q, Y :
        << <<Y[1], Y[2], Y[3], Rat(1), Rat(0), Rat(0), Rat(0), Rat(0),
             RNeg(RMul(q[1], Y[1])), RNeg(RMul(q[1], Y[2])), RNeg(RMul(q[1], Y[3]))>>,
           <<Rat(0), Rat(0), Rat(0), Rat(0), Y[1], Y[2], Y[3], Rat(1),
             RNeg(RMul(q[2], Y[1])), RNeg(RMul(q[2], Y[2])), RNeg(RMul(q[2], Y[3]))>> >>)

\* the number of pairs zip(p.T, P.T) yields
Pairs(P, p) == IF Len(p) < Len(P) THEN Len(p) ELSE Len(P)

\* the system A x = b that the loop of points2C builds
CalibrationSystem(P, p) ==
    Let(Pairs(P, p), LAMBDA n :
        [A |-> Vector(2 * n, LAMBDA r :
                    CalibrationRows(p[(r + 1) \div 2], P[(r + 1) \div 2])[2 - (r % 2)]),
         b |-> Vector(2 * n, LAMBDA r : p[(r + 1) \div 2][2 - (r % 2)])])

\* the test scipy.linalg.lstsq makes of its arguments (check_finite)
SystemIsFinite(sys) ==
    /\ \A r \in 1..Len(sys.A) : \A j \in 1..11 : IsFinite(sys.A[r][j])
    /\ \A r \in 1..Len(sys.b) : IsFinite(sys.b[r])

\* scipy.linalg.lstsq(A, b): the least-squares solution of A x = b, of
\* minimum norm when A is not of full rank.  It is kept as the system it
\* solves; lstsq raises for no rank and no number of rows.
lstsq(sys) == [minimises |-> "|A x - b|", A |-> sys.A, b |-> sys.b]

\* CentralCamera.points2C(P, p)
points2C(P, p) ==
    Let(CalibrationSystem(P, p), LAMBDA sys :
        IF ~SystemIsFinite(sys)
        THEN [outcome |-> "ValueError", value |-> None]
        ELSE [outcome |-> "ok",
              value   |-> [C |-> [reshape |-> <<3, 4>>, c |-> lstsq(sys), last |-> Rat(1)],
                           r |-> [residual |-> lstsq(sys)]]])

(***************************************************************************)
(* Projection of lines and conics.  An argument is kept with its Python    *)
(* class: a Line3 holds a sequence of lines, an ndarray its rows.          *)
(***************************************************************************)
\* Line3(lines), and an np.array
Line3(lines) == [cls |-> "Line3", data |-> lines]

ndarray(rows) == [cls |-> "ndarray", data |-> rows]

\* Camera.project_line and Camera.project_conic: what the classes that do
\* not define their own inherit
Camera_project_line(c, args) == [outcome |-> "NotImplementedError", value |-> None]

Camera_project_conic(c, args) == [outcome |-> "NotImplementedError", value |-> None]

\* line.skew: the Plucker matrix of a line
Line3_skew(L) ==
    Let2(L.v, L.w, LAMBDA v, w :
        << <<Rat(0), v[3], RNeg(v[2]), w[1]>>,
           <<RNeg(v[3]), Rat(0), v[1], w[2]>>,
           <<v[2], RNeg(v[1]), Rat(0), w[3]>>,
           <<RNeg(w[1]), RNeg(w[2]), RNeg(w[3]), Rat(0)>> >>)

\* base.vex of a 3x3 matrix
vex(S) ==
    Let(S, LAMBDA X :
        <<RDiv(RSub(X[3][2], X[2][3]), Rat(2)),
          RDiv(RSub(X[1][3], X[3][1]), Rat(2)),
          RDiv(RSub(X[2][1], X[1][2]), Rat(2))>>)

\* np.max(np.abs(l)) of a 3-vector
MaxAbs(l) ==
    Let(Vector(3, LAMBDA i : RAbs(l[i])), LAMBDA a :
        Let(IF RLt(a[1], a[2]) THEN a[2] ELSE a[1], LAMBDA m :
            IF RLt(m, a[3]) THEN a[3] ELSE m))

\* x = l / np.max(np.abs(l))
NormalisedLine(l) ==
    Let2(l, MaxAbs(l), LAMBDA y, m : Vector(3, LAMBDA i : RDiv(y[i], m)))

\* the image of one line in CentralCamera.project_line
project_one_line(Cm, line) ==
    NormalisedLine(vex(MatMul(MatMul(Cm, Line3_skew(line)), Transpose(Cm))))

\* CentralCamera.project_line(lines): the value is the sequence of the
\* columns of the array
project_line(c, lines) ==
    IF lines.cls # "Line3"
    THEN [outcome |-> "ValueError", value |-> None]
    ELSE Let(C(c, None), LAMBDA Cm :
            [outcome |-> "ok",
             value   |-> Vector(Len(lines.data), LAMBDA i :
                            project_one_line(Cm, lines.data[i]))])

\* a test of the number of rows alone; with it in place of IsMatrix44,
\* C24_ShapeErrorsFirst is violated
HasFourRows(conic) == conic.cls = "ndarray" /\ Len(conic.data) = 4

\* smb.ismatrix(conic, (4, 4))
IsMatrix44(conic) ==
    /\ conic.cls = "ndarray"
    /\ Len(conic.data) = 4
    /\ \A i \in 1..4 : Len(conic.data[i]) = 4

\* CentralCamera.project_conic(conic)
project_conic(c, conic) ==
    IF ~IsMatrix44(conic)
    THEN [outcome |-> "ValueError", value |-> None]
    ELSE Let(C(c, None), LAMBDA Cm :
            [outcome |-> "ok",
             value   |-> MatMul(MatMul(Cm, conic.data), Transpose(Cm))])

(***************************************************************************)
(* The camera classes that are not central.  k is given, so that no        *)
(* default is computed for it.                                             *)
(***************************************************************************)
\* FishEyeCamera.__init__
FishEyeCamera(k, projection, name, rho, imagesize, pp, pose) ==
    [class |-> "FishEyeCamera", projection |-> projection, k |-> k]
        @@ Camera_init(name, <<"fisheye">>, rho, imagesize, pp, pose)

\* CatadioptricCamera.__init__
CatadioptricCamera(k, projection, name, rho, imagesize, pp, pose) ==
    [class |-> "CatadioptricCamera", projection |-> projection, k |-> k]
        @@ Camera_init(name, <<"catadioptric">>, rho, imagesize, pp, pose)

\* SphericalCamera.__init__
SphericalCamera(name, rho, imagesize, pp, pose) ==
    [class |-> "SphericalCamera"]
        @@ Camera_init(name, <<"spherical">>, rho, imagesize, pp, pose)

(***************************************************************************)
(* project_point of the classes that are not central.  The angles of the   *)
(* image are functions of the direction of the point in the frame the      *)
(* method has moved it to; an image point is kept as that point together   *)
(* with the parameters that scale it.                                      *)
(***************************************************************************)
\* the transform T the three methods build from pose and objpose
FrameOfNonCentral(c, pose, objpose) ==
    Let(IF pose # None THEN SE3Inv(c.pose) ELSE SE3Identity, LAMBDA T :
        IF objpose # None THEN SE3Mul(T, objpose[1]) ELSE T)

\* T * P for the columns of P
MovePoints(T, P) ==
    Vector(Len(P), LAMBDA i :
        Let(MatVec(T.R, P[i]), LAMBDA RP :
            Vector(3, LAMBDA j : RAdd(RP[j], T.t[j]))))

\* the image of the point Pc: r = rfunc(theta) or the angles themselves
AngularImage(c, Pc) ==
    IF c.class = "SphericalCamera"
    THEN [phi_theta_of |-> Pc]
    ELSE [phi_theta_of |-> Pc, rfunc |-> <<c.projection, c.k>>,
          rho |-> <<c.rhou, c.rhov>>, pp |-> c.pp]

\* FishEyeCamera.project_point(P, pose, objpose): T is built and not used
FishEye_project_point(c, P, pose, objpose) ==
    Vector(Len(P), LAMBDA i : AngularImage(c, P[i]))

\* CatadioptricCamera.project_point(P, pose, objpose)
Catadioptric_project_point(c, P, pose, objpose) ==
    Let(MovePoints(FrameOfNonCentral(c, pose, objpose), P), LAMBDA Pc :
        Vector(Len(Pc), LAMBDA i : AngularImage(c, Pc[i])))

\* SphericalCamera.project_point(P, pose, objpose)
Spherical_project_point(c, P, pose, objpose) ==
    Let(MovePoints(FrameOfNonCentral(c, pose, objpose), P), LAMBDA Pc :
        Vector(Len(Pc), LAMBDA i : AngularImage(c, Pc[i])))

\* other.project_point(P, pose, objpose) for a camera of one of the three
\* classes
NonCentral_project_point(c, P, pose, objpose) ==
    IF c.class = "FishEyeCamera" THEN FishEye_project_point(c, P, pose, objpose)
    ELSE IF c.class = "CatadioptricCamera"
         THEN Catadioptric_project_point(c, P, pose, objpose)
         ELSE Spherical_project_point(c, P, pose, objpose)

\* Camera._plotcreate(): the camera gets an axes handle if it has none
plotcreate(c) == IF c.ax # None THEN c ELSE [c EXCEPT !.ax = <<"axes">>]

\* Camera.disp(im) for an image of shape (rows, columns)
disp(c, shape) == set_imagesize(plotcreate(c), <<Rat(shape[2]), Rat(shape[1])>>)

\* a copy that keeps the axes handle of the camera; with it in place of
\* move, C27_CallsLeaveCameraUnchanged is violated
MoveKeepingAxes(c, T, name) ==
    [c EXCEPT !.name = IF name = None THEN c.name \o <<"-moved">> ELSE name[1],
              !.pose = T]

\* Camera.move(T, name): a copy of the camera at pose T
move(c, T, name) ==
    [c EXCEPT !.name = IF name = None THEN c.name \o <<"-moved">> ELSE name[1],
              !.ax = None,
              !.pose = T]

(***************************************************************************)
(* The values the operations are called with.                              *)
(***************************************************************************)
Coords == (0 - MaxCoord)..MaxCoord

Vec3(x, y, z) == <<Rat(x), Rat(y), Rat(z)>>

\* rotations with rational entries: by 90 degrees about z, and by
\* atan(4/3) about y
Rz90 == <<Vec3(0, -1, 0), Vec3(1, 0, 0), Vec3(0, 0, 1)>>

Ry345 ==
    << <<Frac(3, 5), Rat(0), Frac(4, 5)>>,
       <<Rat(0), Rat(1), Rat(0)>>,
       <<Frac(-4, 5), Rat(0), Frac(3, 5)>> >>

Rotations == {Eye(3, 3), MatMul(Rz90, Ry345)}

Translations == {Vec3(0, 0, 0), Vec3(1, 0, -1)}

Poses == {SE3Rt(R, t) : R \in Rotations, t \in Translations}

\* a pose given explicitly to project_point, C, E, F or H
PoseArgs == {SE3Rt(Rz90, Vec3(0, 1, 0)), SE3Rt(Ry345, Vec3(1, 0, -1))}

FocalArgs == {<<Rat(a)>> : a \in 1..MaxF} \cup {<<Rat(1), Rat(MaxF)>>}

RhoArgs == {<<Rat(1)>>, <<Rat(1), Rat(2)>>}

ImagesizeArgs == {<<Rat(4)>>, <<Rat(4), Rat(2)>>}

PPArgs == {<<Rat(2), Rat(1)>>}

\* a vector that is neither 1 nor 2 long
BadVector == Vec3(1, 1, 1)

\* world points, as columns of 3 elements, and two homogeneous columns
Points == {Vec3(x, 1, z) : x \in Coords, z \in {-1, 0, 2}}

HomogeneousPoints == {<<Rat(0), Rat(1), Rat(-1), Rat(-1)>>}

PairPoints == {Vec3(1, 1, 2), Vec3(0, 0, -1)}

\* the arguments (pose, objpose) of project_point
FrameArgs ==
    {<<None, None>>,
     <<<<SE3Rt(Ry345, Vec3(1, 0, -1))>>, None>>,
     <<None, <<SE3Rt(Rz90, Vec3(0, 0, 1))>>>>}

\* the arrays P given to project_point: one or two columns
PointArrays ==
    {<<p>> : p \in Points \cup HomogeneousPoints}
        \cup {<<p, q>> : p \in PairPoints, q \in PairPoints}

\* second views: the camera moved, and cameras with intrinsics of their own
OtherCameras(c) ==
    {move(c, T, None) : T \in PoseArgs}
        \cup {CentralCamera(f, <<<<"camera2">>>>, <<Rat(1)>>, <<Rat(4)>>, pp, <<T>>) :
                f \in FocalArgs, pp \in {None} \cup PPArgs, T \in PoseArgs}

P0 == Eye(3, 4)

\* the projection of an affine camera: its centre is at infinity
Paffine ==
    << <<Rat(1), Rat(0), Rat(0), Rat(0)>>,
       <<Rat(0), Rat(1), Rat(0), Rat(0)>>,
       <<Rat(0), Rat(0), Rat(0), Rat(1)>> >>

\* diagonal matrices of determinant -1
Mirrors == {DiagMat(Vec3(1, 1, -1)), DiagMat(Vec3(-1, -1, -1))}

\* the arrays given to decomposeC: the camera's own matrix, for its pose and
\* for a given one, a multiple of it, K @ S @ [R|t] for a mirror S, an
\* affine camera, and an array that is not 3x4
CalibrationInputs(c) ==
    {C(c, None)}
        \cup {C(c, <<T>>) : T \in PoseArgs}
        \cup {Scale(Rat(k), C(c, None)) : k \in {-1, 2}}
        \cup {MatMul(MatMul(MatMul(K(c), S), P0), SE3A(SE3Inv(c.pose))) : S \in Mirrors}
        \cup {MatMul(MatMul(K(c), Paffine), SE3A(SE3Inv(c.pose)))}
        \cup {K(c)}

PlaneNormals == {Vec3(0, 0, 1), Vec3(0, 0, -1), Vec3(1, 0, 1), Vec3(0, 1, 0)}

PlaneDistances == {Rat(-1), Rat(0), Rat(1), Rat(2)}

\* a rotation by 90 degrees about y: a homography with H[2,2] = 0
Ry90 == <<Vec3(0, 0, 1), Vec3(0, 1, 0), Vec3(-1, 0, 0)>>

\* a homography that is no multiple of a rotation
ShearH == <<Vec3(1, 0, 1), Vec3(0, 2, 0), Vec3(0, 0, 1)>>

\* the homographies given to invH
Homographies == {Rz90, Ry90, Scale(Rat(2), Ry345), ShearH}

\* relative motions (R, t) with a unit translation
UnitMotions == {SE3Rt(Eye(3, 3), Vec3(0, 0, 1)), SE3Rt(Rz90, Vec3(1, 0, 0))}

\* the essential matrix skew(t) @ R of the motion (R, t)
EssentialOf(T) == MatMul(Skew(T.t), T.R)

\* the other rotation with the same essential matrix: R turned by 180
\* degrees about t
Twisted(T) ==
    MatMul(Matrix(3, 3, LAMBDA i, j :
                RSub(RMul(Rat(2), RMul(T.t[i], T.t[j])),
                     IF i = j THEN Rat(1) ELSE Rat(0))),
           T.R)

\* what cv.decomposeEssentialMat may return for the essential matrix of T:
\* the two rotations in either order, and the unit translation of either sign
EssentialDecompositions(T) ==
    {[R1 |-> Rs[1], R2 |-> Rs[2], t |-> t] :
        Rs \in {<<T.R, Twisted(T)>>, <<Twisted(T), T.R>>},
        t \in {T.t, NegVec(T.t)}}

\* the world points given to decomposeE
TestPoints == {Vec3(0, 0, 2), Vec3(0, 0, -2), Vec3(1, 0, -1), Vec3(1, 1, 2)}

\* the image points given to visjac_p for camera c: its principal point and
\* points off it
ImagePoints(c) == {c.pp, <<Rat(3), Rat(1)>>, <<Rat(0), Rat(2)>>}

\* the arrays uv given to visjac_p: one, two or three columns
ImageArrays(c) ==
    {<<p>> : p \in ImagePoints(c)}
        \cup {<<c.pp, <<Rat(3), Rat(1)>>>>, <<<<Rat(0), Rat(2)>>, c.pp>>}
        \cup {<<<<Rat(3), Rat(1)>>, c.pp, <<Rat(0), Rat(2)>>>>}

\* the depths Z given to visjac_p: a scalar, and vectors of 2 and 3 depths
DepthArgs ==
    {<<Rat(1)>>, <<Rat(2)>>, <<Rat(-1)>>,
     <<Rat(1), Rat(2)>>, <<Rat(2), Rat(1)>>,
     <<Rat(2), Rat(1), Rat(3)>>}

\* the arrays of world points that are projected and then given to plucker
RayPoints == {P \in PointArrays : \A i \in 1..Len(P) : Len(P[i]) = 3}

\* the world points of a calibration target: six points that span space,
\* six points of the plane z = 2, and five points
TargetPoints ==
    <<Vec3(0, 0, 2), Vec3(1, 0, 2), Vec3(0, 1, 2), Vec3(1, 1, 3), Vec3(0, 0, 3),
      Vec3(1, 0, 3)>>

PlanarTargetPoints ==
    <<Vec3(0, 0, 2), Vec3(1, 0, 2), Vec3(0, 1, 2), Vec3(1, 1, 2), Vec3(-1, 0, 2),
      Vec3(0, -1, 2)>>

CalibrationTargets ==
    {TargetPoints, PlanarTargetPoints, SubSeq(TargetPoints, 1, 5),
     SubSeq(TargetPoints, 1, 1)}

\* cameras of the classes that are not central, at the pose T
NonCentralCameras(T) ==
    {FishEyeCamera(Rat(1), "equiangular", None, <<Rat(1)>>, <<Rat(4)>>, None, T),
     CatadioptricCamera(Rat(1), "equiangular", None, <<Rat(1)>>, <<Rat(4)>>, None, T),
     SphericalCamera(None, <<Rat(1)>>, <<Rat(4)>>, None, T)}

\* lines of space: through the origin, through (1, 0, -1), and two that
\* pass through neither
SpaceLines ==
    {PointDir(Vec3(0, 0, 0), Vec3(0, 0, 1)), PointDir(Vec3(1, 0, -1), Vec3(1, 1, 1)),
     PointDir(Vec3(0, 1, 2), Vec3(1, 0, 0)), PointDir(Vec3(-1, 0, 2), Vec3(2, 1, 1))}

\* the arguments given to project_line: Line3 objects of one and of two
\* lines, and the coordinates of a line as an array
LineArgs ==
    {Line3(<<L>>) : L \in SpaceLines}
        \cup {Line3(<<PointDir(Vec3(0, 1, 2), Vec3(1, 0, 0)),
                      PointDir(Vec3(-1, 0, 2), Vec3(2, 1, 1))>>)}
        \cup {ndarray(<<Vec3(0, 2, -1) \o Vec3(1, 0, 0)>>)}

\* the arguments given to project_conic: the unit sphere, a 4x4 array that
\* is not symmetric, and arrays and objects that are not 4x4 arrays
ConicArgs ==
    {ndarray(DiagMat(<<Rat(1), Rat(1), Rat(1), Rat(-1)>>)),
     ndarray(Matrix(4, 4, LAMBDA i, j : Rat(i - 2 * j))),
     ndarray(Eye(3, 3)), ndarray(Eye(3, 4)), ndarray(Eye(4, 3)),
     Line3(<<PointDir(Vec3(0, 1, 2), Vec3(1, 0, 0))>>)}

\* the shapes (rows, columns) of the images given to disp
ImageShapes == {<<2, 4>>}

\* the values assigned to name and camtype: two strings, a number and None
NameArgs ==
    {[type |-> "str", value |-> <<"left">>], [type |-> "str", value |-> <<"">>],
     [type |-> "int", value |-> 7], [type |-> "NoneType", value |-> None]}

\* a single number assigned to pp, and an empty vector
ScalarPPArgs == {<<Rat(1)>>, <<>>}

(***************************************************************************)
(* The program: one CentralCamera object, its setters, and the calls made  *)
(* on it, one at a time.  `result` records the call that has just been     *)
(* made: its name, its arguments and what it returned or raised; the       *)
(* caller takes it (Return) before it makes the next call.                 *)
(***************************************************************************)
VARIABLES camera, result

vars == <<camera, result>>

Idle == [op |-> "idle"]

Ready == result.op = "idle"

Init ==
    \E f \in FocalArgs, rho \in RhoArgs, imagesize \in ImagesizeArgs,
       pp \in {None} \cup PPArgs, pose \in {None} \cup {<<T>> : T \in Poses} :
        /\ camera = CentralCamera(f, None, rho, imagesize, pp, pose)
        /\ result = Idle

\* camera.pose = newpose
SetPose ==
    /\ Ready
    /\ \E newpose \in Poses :
        /\ camera' = set_pose(camera, newpose)
        /\ result' = [op |-> "pose", arg |-> newpose, outcome |-> "ok"]

\* camera.f = f
SetF ==
    /\ Ready
    /\ \E f \in FocalArgs \cup {BadVector} :
        IF IsVec12(f)
        THEN /\ camera' = set_f(camera, f)
             /\ result' = [op |-> "f", arg |-> f, outcome |-> "ok"]
        ELSE /\ camera' = camera
             /\ result' = [op |-> "f", arg |-> f, outcome |-> "ValueError"]

\* camera.pp = pp
SetPP ==
    /\ Ready
    /\ \E pp \in PPArgs \cup {BadVector} :
        IF IsVec12(pp)
        THEN /\ camera' = set_pp(camera, pp)
             /\ result' = [op |-> "pp", arg |-> pp, outcome |-> "ok"]
        ELSE /\ camera' = camera
             /\ result' = [op |-> "pp", arg |-> pp, outcome |-> "ValueError"]

\* camera.imagesize = npix
SetImagesize ==
    /\ Ready
    /\ \E npix \in ImagesizeArgs \cup {BadVector} :
        IF IsVec12(npix)
        THEN /\ camera' = set_imagesize(camera, npix)
             /\ result' = [op |-> "imagesize", arg |-> npix, outcome |-> "ok"]
        ELSE /\ camera' = camera
             /\ result' = [op |-> "imagesize", arg |-> npix, outcome |-> "ValueError"]

\* camera.project_point(P, pose, objpose, behind, visibility)
ProjectPoint ==
    /\ Ready
    /\ \E P \in PointArrays, frames \in FrameArgs,
          behind \in BOOLEAN, visibility \in BOOLEAN :
        LET pose    == frames[1]
            objpose == frames[2]
        IN
        /\ result' = [op |-> "project_point", P |-> P, pose |-> pose,
                      objpose |-> objpose, behind |-> behind,
                      visibility |-> visibility, outcome |-> "ok",
                      value |-> project_point(camera, P, pose, objpose, behind, visibility)]
        /\ UNCHANGED camera

\* CentralCamera.decomposeC(C)
DecomposeC ==
    /\ Ready
    /\ \E Cin \in CalibrationInputs(camera), D \in QRSigns :
        /\ result' = [op |-> "decomposeC", C |-> Cin, value |-> decomposeC(Cin, D)]
        /\ UNCHANGED camera

\* camera.E(other)
CallE ==
    /\ Ready
    /\ UNCHANGED camera
    /\ \/ \E other \in OtherCameras(camera) :
            result' = [op |-> "E", kind |-> "CentralCamera", other |-> other,
                       value |-> E(camera, "CentralCamera", other)]
       \/ \E T \in PoseArgs :
            result' = [op |-> "E", kind |-> "SE3", other |-> T,
                       value |-> E(camera, "SE3", T)]
       \/ \E T \in PoseArgs :
            LET Fm == F(camera, "SE3", T).value
            IN  result' = [op |-> "E", kind |-> "ndarray", other |-> Fm,
                           motion |-> T, value |-> E(camera, "ndarray", Fm)]
       \/ result' = [op |-> "E", kind |-> "str", other |-> "camera2",
                     value |-> E(camera, "str", "camera2")]

\* camera.F(other)
CallF ==
    /\ Ready
    /\ UNCHANGED camera
    /\ \/ \E other \in OtherCameras(camera) :
            result' = [op |-> "F", kind |-> "CentralCamera", other |-> other,
                       value |-> F(camera, "CentralCamera", other)]
       \/ \E T \in PoseArgs :
            result' = [op |-> "F", kind |-> "SE3", other |-> T,
                       value |-> F(camera, "SE3", T)]
       \/ result' = [op |-> "F", kind |-> "ndarray", other |-> Eye(3, 3),
                     value |-> F(camera, "ndarray", Eye(3, 3))]

\* camera.H(T, N, d)
CallH ==
    /\ Ready
    /\ \E T \in PoseArgs, N \in PlaneNormals, d \in PlaneDistances :
        /\ result' = [op |-> "H", T |-> T, N |-> N, d |-> d,
                      value |-> H(camera, T, N, d)]
        /\ UNCHANGED camera

\* the caller takes the value returned, or catches the exception raised
Return ==
    /\ ~Ready
    /\ result' = Idle
    /\ UNCHANGED camera

Next ==
    \/ Return
    \/ SetPose
    \/ SetF
    \/ SetPP
    \/ SetImagesize
    \/ ProjectPoint
    \/ DecomposeC
    \/ CallE
    \/ CallF
    \/ CallH

Spec == Init /\ [][Next]_vars

(***************************************************************************)
(* The calls of the second group: homography decomposition, pose recovery  *)
(* from an essential matrix, the image Jacobian and back-projection.  No   *)
(* call changes the camera, so the cameras these calls are made on are the *)
(* cameras of Spec.                                                        *)
(***************************************************************************)
\* camera.invH(H), camera.invH(H, K)
CallInvH ==
    /\ Ready
    /\ \E Hm \in Homographies, Kopt \in {None, <<K(camera)>>} :
        /\ result' = [op |-> "invH", H |-> Hm, K |-> Kopt,
                      value |-> invH(camera, Hm, Kopt)]
        /\ UNCHANGED camera

\* camera.decomposeE(E, P)
CallDecomposeE ==
    /\ Ready
    /\ UNCHANGED camera
    /\ \E T \in UnitMotions :
        \E dec \in EssentialDecompositions(T) :
            \/ \E P \in TestPoints :
                    result' = [op |-> "decomposeE", kind |-> "ndarray",
                               E |-> EssentialOf(T), dec |-> dec, P |-> P,
                               value |-> decomposeE(camera, dec, P)]
            \/ \E i \in 1..4 :
                    result' = [op |-> "decomposeE", kind |-> "Match",
                               E |-> EssentialOf(T), dec |-> dec,
                               value |-> decomposeE_match(camera, Possibles(dec)[i])]

\* camera.visjac_p(uv, Z)
CallVisjac ==
    /\ Ready
    /\ UNCHANGED camera
    /\ \E uv \in ImageArrays(camera), Z \in DepthArgs :
        result' = [op |-> "visjac_p", uv |-> uv, Z |-> Z] @@ visjac_p(camera, uv, Z)

\* camera.plucker(camera.project_point(P))
CallPlucker ==
    /\ Ready
    /\ UNCHANGED camera
    /\ \E P \in RayPoints :
        result' = Let(project_point(camera, P, None, None, TRUE, FALSE).x, LAMBDA uv :
                    [op |-> "plucker", P |-> P, points |-> uv,
                     value |-> plucker(camera, uv)])

NextMotion ==
    \/ Return
    \/ SetPose
    \/ SetF
    \/ SetPP
    \/ SetImagesize
    \/ CallH
    \/ CallInvH
    \/ CallDecomposeE
    \/ CallVisjac
    \/ CallPlucker

SpecMotion == Init /\ [][NextMotion]_vars

(***************************************************************************)
(* The calls of the third group: calibration from points, and the calls    *)
(* that read or copy the state of the object.                              *)
(***************************************************************************)
\* CentralCamera.points2C(P, camera.project_point(P))
CallPoints2C ==
    /\ Ready
    /\ UNCHANGED camera
    /\ \E P \in CalibrationTargets :
        result' = Let(project_point(camera, P, None, None, TRUE, FALSE).x, LAMBDA uv :
                    [op |-> "points2C", P |-> P, p |-> uv] @@ points2C(P, uv))

\* camera.project_line(lines), and project_line(lines) on a camera of
\* another class made for the call
CallProjectLine ==
    /\ Ready
    /\ UNCHANGED camera
    /\ \E lines \in LineArgs :
        \/ result' = [op |-> "project_line", class |-> "CentralCamera", arg |-> lines]
                        @@ project_line(camera, lines)
        \/ \E other \in NonCentralCameras(<<camera.pose>>) :
            result' = [op |-> "project_line", class |-> other.class, arg |-> lines]
                        @@ Camera_project_line(other, lines)

\* camera.project_conic(conic), and project_conic(conic) on a camera of
\* another class made for the call
CallProjectConic ==
    /\ Ready
    /\ UNCHANGED camera
    /\ \E conic \in ConicArgs :
        \/ result' = [op |-> "project_conic", class |-> "CentralCamera", arg |-> conic]
                        @@ project_conic(camera, conic)
        \/ \E other \in NonCentralCameras(<<camera.pose>>) :
            result' = [op |-> "project_conic", class |-> other.class, arg |-> conic]
                        @@ Camera_project_conic(other, conic)

\* camera.K
CallK ==
    /\ Ready
    /\ UNCHANGED camera
    /\ result' = [op |-> "K", outcome |-> "ok", value |-> K(camera)]

\* camera.C(), camera.C(T)
CallC ==
    /\ Ready
    /\ UNCHANGED camera
    /\ \E T \in {None} \cup {<<T>> : T \in PoseArgs} :
        result' = [op |-> "C", T |-> T, outcome |-> "ok", value |-> C(camera, T)]

\* other.project_point(P), other.project_point(P, pose=T) on a camera of
\* another class made for the call, at the pose of this camera
CallProjectPointOther ==
    /\ Ready
    /\ UNCHANGED camera
    /\ \E other \in NonCentralCameras(<<camera.pose>>), P \in RayPoints,
          pose \in {None} \cup {<<T>> : T \in PoseArgs} :
        result' = [op |-> "project_point_other", class |-> other.class,
                   object |-> other, P |-> P, pose |-> pose, objpose |-> None,
                   outcome |-> "ok",
                   value |-> NonCentral_project_point(other, P, pose, None)]

\* camera.project_point(P, pose=T)
ProjectPointAt ==
    /\ Ready
    /\ UNCHANGED camera
    /\ \E p \in PairPoints, T \in PoseArgs :
        result' = [op |-> "project_point", P |-> <<p>>, pose |-> <<T>>,
                   objpose |-> None, behind |-> TRUE, visibility |-> FALSE,
                   outcome |-> "ok",
                   value |-> project_point(camera, <<p>>, <<T>>, None, TRUE, FALSE)]

\* camera.disp(im)
CallDisp ==
    /\ Ready
    /\ \E shape \in ImageShapes :
        /\ camera' = disp(camera, shape)
        /\ result' = [op |-> "disp", arg |-> shape, outcome |-> "ok"]

\* camera.move(T), camera.move(T, name)
CallMove ==
    /\ Ready
    /\ UNCHANGED camera
    /\ \E T \in PoseArgs, name \in {None, <<<<"left">>>>} :
        result' = [op |-> "move", T |-> T, name |-> name, outcome |-> "ok",
                   value |-> move(camera, T, name)]

\* camera.E(other) for a second camera, and camera.E(T) for the motion T
\* from this camera to it
CallEBoth ==
    /\ Ready
    /\ UNCHANGED camera
    /\ \E other \in OtherCameras(camera) :
        result' = Let(SE3Mul(SE3Inv(camera.pose), other.pose), LAMBDA T :
                    [op |-> "E, E", other |-> other, T |-> T,
                     ofCamera |-> E(camera, "CentralCamera", other),
                     ofSE3 |-> E(camera, "SE3", T)])

NextObject ==
    \/ Return
    \/ SetPose
    \/ SetF
    \/ SetPP
    \/ SetImagesize
    \/ CallPoints2C
    \/ CallProjectLine
    \/ CallProjectConic
    \/ DecomposeC
    \/ CallK
    \/ CallC
    \/ CallProjectPointOther
    \/ ProjectPointAt
    \/ CallDisp
    \/ CallMove
    \/ CallEBoth

SpecObject == Init /\ [][NextObject]_vars

(***************************************************************************)
(* A camera made without a principal point, on which pp is never assigned. *)
(***************************************************************************)
InitDefault ==
    \E f \in FocalArgs, rho \in RhoArgs, imagesize \in ImagesizeArgs,
       pose \in {None} \cup {<<T>> : T \in Poses} :
        /\ camera = CentralCamera(f, None, rho, imagesize, None, pose)
        /\ result = Idle

NextDefault ==
    \/ Return
    \/ SetPose
    \/ SetF
    \/ SetImagesize
    \/ CallDisp
    \/ CallK

SpecDefault == InitDefault /\ [][NextDefault]_vars

(***************************************************************************)
(* The assignments to the attributes of the camera, the invalid ones       *)
(* included.                                                               *)
(***************************************************************************)
\* camera.name = newname
SetName ==
    /\ Ready
    /\ \E newname \in NameArgs :
        IF IsStr(newname)
        THEN /\ camera' = set_name(camera, newname)
             /\ result' = [op |-> "name", arg |-> newname, outcome |-> "ok"]
        ELSE /\ camera' = camera
             /\ result' = [op |-> "name", arg |-> newname, outcome |-> "TypeError"]

\* camera.camtype = newcamtype
SetCamtype ==
    /\ Ready
    /\ \E newcamtype \in NameArgs :
        IF IsStr(newcamtype)
        THEN /\ camera' = set_camtype(camera, newcamtype)
             /\ result' = [op |-> "camtype", arg |-> newcamtype, outcome |-> "ok"]
        ELSE /\ camera' = camera
             /\ result' = [op |-> "camtype", arg |-> newcamtype,
                           outcome |-> "TypeError"]

\* camera.pp = pp for a single number and for an empty vector
SetPPScalar ==
    /\ Ready
    /\ \E pp \in ScalarPPArgs :
        IF IsVec12(pp)
        THEN /\ camera' = set_pp(camera, pp)
             /\ result' = [op |-> "pp", arg |-> pp, outcome |-> "ok"]
        ELSE /\ camera' = camera
             /\ result' = [op |-> "pp", arg |-> pp, outcome |-> "ValueError"]

NextSetters ==
    \/ Return
    \/ SetPose
    \/ SetF
    \/ SetPP
    \/ SetPPScalar
    \/ SetImagesize
    \/ SetName
    \/ SetCamtype

SpecSetters == Init /\ [][NextSetters]_vars

(***************************************************************************)
(* Properties of decomposeC.                                               *)
(***************************************************************************)
Zero3 == <<Rat(0), Rat(0), Rat(0)>>

\* the call just made is decomposeC(camera.C())
DecomposedOwnC == result.op = "decomposeC" /\ result.C = C(camera, None)

\* the call just made is decomposeC of a 3x4 array
Decomposed == result.op = "decomposeC" /\ result.value.outcome # "ValueError"

\* C1: the camera that decomposeC(camera.C()) returns has the intrinsic
\* matrix K of the camera, also when fu/rhou differs from fv/rhov.
\* This does not hold: decomposeC passes K[1,1]/K[0,0] as the pixel pitch
\* rhov, so that K[1,1] of the camera returned is K[0,0]^2/K[1,1].
C1_RoundTripIntrinsics ==
    DecomposedOwnC =>
        /\ result.value.outcome = "ok"
        /\ K(result.value.camera) = K(camera)

\* C2: the camera that decomposeC(camera.C()) returns has the pose of the
\* camera: its translation is the centre c, with C @ [c; 1] = 0, and its
\* rotation is the camera's.
C2_RoundTripPose ==
    DecomposedOwnC =>
        /\ result.value.outcome = "ok"
        /\ result.value.camera.pose = camera.pose
        /\ MatVec(result.C, E2H(result.value.camera.pose.t)) = Zero3

C2_Witness ==
    /\ DecomposedOwnC
    /\ result.value.outcome = "ok"
    /\ camera.pose.t # Zero3
    /\ camera.pose.R # Transpose(camera.pose.R)
    /\ result.value.camera.pose = camera.pose

\* C3: decomposeC raises the RuntimeError and returns no camera whenever the
\* sign matrix diag(sign(diag(K))) has not determinant 1, as it has for
\* every C whose leading block has a negative determinant (K @ R with R a
\* reflection); and a camera it returns has a K with a positive diagonal and
\* a rotation of determinant 1.
C3_NoImproperRotation ==
    Decomposed =>
        /\ Det3(result.value.Cs) # Rat(1) =>
                result.value.outcome = "RuntimeError" /\ result.value.camera = None
        /\ RLt(Det3(Minor(result.C, 1, 2, 3)), Rat(0)) =>
                result.value.outcome = "RuntimeError" /\ result.value.camera = None
        /\ result.value.outcome = "ok" =>
                /\ \A i \in 1..3 : RLt(Rat(0), result.value.K[i][i])
                /\ Det3(result.value.R) = Rat(1)
                /\ IsRot(result.value.camera.pose.R)

C3_Witness ==
    /\ Decomposed
    /\ RLt(Det3(Minor(result.C, 1, 2, 3)), Rat(0))
    /\ Det3(result.value.Cs) = Rat(-1)
    /\ result.value.outcome = "RuntimeError"

Projected == result.op = "project_point"

\* C @ P for column i of the array that was projected
HomogeneousImage(i) ==
    image_homogeneous(C(camera, result.pose), result.P[i], result.objpose)

\* C5: with behind=True a point of depth < 0 comes out as (NaN, NaN), and
\* as not visible with visibility=True; a point of depth > 0 never comes
\* out as NaN; with behind=False a point of depth < 0 comes out as its
\* quotients, not as NaN.
C5_BehindSentinel ==
    Projected =>
        \A i \in 1..Len(result.P) :
            Let2(HomogeneousImage(i), result.value.x[i], LAMBDA x, p :
                /\ (result.behind /\ RLt(x[3], Rat(0))) =>
                        /\ p = <<NaN, NaN>>
                        /\ result.visibility => ~result.value.visible[i]
                /\ RLt(Rat(0), x[3]) => ~IsNaN(p[1]) /\ ~IsNaN(p[2])
                /\ (~result.behind /\ RLt(x[3], Rat(0))) =>
                        /\ p = <<RDiv(x[1], x[3]), RDiv(x[2], x[3])>>
                        /\ ~IsNaN(p[1]) /\ ~IsNaN(p[2]))

C5_Witness ==
    /\ Projected
    /\ result.behind
    /\ result.visibility
    /\ Len(result.P) = 2
    /\ RLt(Rat(0), HomogeneousImage(1)[3])
    /\ RLt(HomogeneousImage(2)[3], Rat(0))
    /\ result.value.x[2] = <<NaN, NaN>>
    /\ ~result.value.visible[2]

\* u is a finite number and 0 <= u < n, for a finite n
InRange(u, n) == u[2] > 0 /\ u[1] >= 0 /\ u[1] * n[2] < n[1] * u[2]

\* C6: with visibility=True there is one flag for each column, flag i is
\* true exactly when the image (u, v) of column i is not NaN and
\* 0 <= u < width and 0 <= v < height, and image i is that of column i.
C6_VisibilityFlag ==
    (Projected /\ result.visibility) =>
        /\ Len(result.value.visible) = Len(result.P)
        /\ Len(result.value.x) = Len(result.P)
        /\ \A i \in 1..Len(result.P) :
            /\ result.value.visible[i] =
                    (/\ InRange(result.value.x[i][1], camera.imagesize[1])
                     /\ InRange(result.value.x[i][2], camera.imagesize[2]))
            /\ result.value.x[i] =
                    project_point(camera, <<result.P[i]>>, result.pose,
                                  result.objpose, result.behind, FALSE).x[1]

C6_Witness ==
    /\ Projected
    /\ result.visibility
    /\ Len(result.P) = 2
    /\ result.value.visible = <<FALSE, TRUE>>
    /\ ~IsNaN(result.value.x[1][1])

(***************************************************************************)
(* Properties of E, F and H.                                               *)
(***************************************************************************)
\* the elements of a finite set, in a sequence
RECURSIVE SeqOf(_)
SeqOf(S) ==
    IF S = {} THEN <<>>
    ELSE Let(CHOOSE x \in S : TRUE, LAMBDA x : <<x>> \o SeqOf(S \ {x}))

\* the world points in front of both cameras
InFrontOfBoth(c1, c2) ==
    Let2(C(c1, None), C(c2, None), LAMBDA C1, C2 :
        {P \in Points : /\ RLt(Rat(0), image_homogeneous(C1, P, None)[3])
                        /\ RLt(Rat(0), image_homogeneous(C2, P, None)[3])})

\* the images of the world points P in camera c
ImagesOf(c, P) == project_point(c, P, None, None, TRUE, FALSE).x

\* [p2; 1].T @ Fm @ [p1; 1]
EpipolarProduct(Fm, p1, p2) == Dot(E2H(p2), MatVec(Fm, E2H(p1)))

FOfCamera == result.op = "F" /\ result.kind = "CentralCamera"

\* C7: for F = C1.F(C2) and a world point P in front of both cameras, with
\* images p1 and p2, [p2; 1].T @ F @ [p1; 1] = 0.
C7_EpipolarConstraint ==
    FOfCamera =>
        Let(SeqOf(InFrontOfBoth(camera, result.other)), LAMBDA P :
            Let2(ImagesOf(camera, P), ImagesOf(result.other, P), LAMBDA p1, p2 :
                \A i \in 1..Len(P) :
                    EpipolarProduct(result.value.value, p1[i], p2[i]) = Rat(0)))

C7_Witness ==
    /\ FOfCamera
    /\ K(result.other) # K(camera)
    /\ camera.pose.R # Eye(3, 3)
    /\ Let(SeqOf(InFrontOfBoth(camera, result.other)), LAMBDA P :
            /\ Len(P) >= 2
            /\ Let2(ImagesOf(camera, P), ImagesOf(result.other, P), LAMBDA p1, p2 :
                    /\ p1[1] # p2[1]
                    /\ MatVec(result.value.value, E2H(p1[1])) # Zero3))

\* C8: C1.F(C2) = inv(K2).T @ C1.E(C2) @ inv(K1), C1.F(T) =
\* inv(K1).T @ C1.E(T) @ inv(K1), and for that F, C1.E(F) = K1.T @ F @ K1
\* is C1.E(T) again.
C8_EssentialFundamental ==
    /\ FOfCamera =>
            result.value.value =
                MatMul(MatMul(Transpose(Inv3(K(result.other))),
                              E(camera, "CentralCamera", result.other).value),
                       Inv3(K(camera)))
    /\ (result.op = "F" /\ result.kind = "SE3") =>
            result.value.value =
                MatMul(MatMul(Transpose(Inv3(K(camera))),
                              E(camera, "SE3", result.other).value),
                       Inv3(K(camera)))
    /\ (result.op = "E" /\ result.kind = "ndarray") =>
            /\ result.value.value =
                    MatMul(MatMul(Transpose(K(camera)), result.other), K(camera))
            /\ result.value.value = E(camera, "SE3", result.motion).value

C8_Witness ==
    /\ FOfCamera
    /\ K(result.other) # K(camera)
    /\ camera.fu # camera.fv
    /\ result.value.value # Transpose(result.value.value)
    /\ result.value.value # E(camera, "CentralCamera", result.other).value

EOfSE3 == result.op = "E" /\ result.kind = "SE3"

\* C9, as claimed: E(T) for an SE3 T is skew(t) @ R with R and t the rotation
\* and translation of T itself.  This does not hold.
C9_EUsesTDirectly ==
    EOfSE3 => result.value.value = MatMul(Skew(result.other.t), result.other.R)

\* C9, amended: E(T) for an SE3 T is skew(t') @ R' with R' = R.T and
\* t' = -R.T @ t the rotation and translation of the inverse of T.
C9_EUsesInverseOfT ==
    EOfSE3 =>
        /\ result.value.outcome = "ok"
        /\ result.value.value =
                MatMul(Skew(NegVec(MatVec(Transpose(result.other.R), result.other.t))),
                       Transpose(result.other.R))

C9_Witness ==
    /\ EOfSE3
    /\ result.other.R # Transpose(result.other.R)
    /\ result.other.t # Zero3
    /\ result.value.value # MatMul(Skew(result.other.t), result.other.R)

\* C10: H(T, N, d) raises an error for every d <= 0, before it divides by d.
\* This does not hold: the test is d < 0, and d = 0 goes on to 1.0 / d.
C10_NonPositiveDistanceRejected ==
    (result.op = "H" /\ RLe(result.d, Rat(0))) =>
        /\ result.value.outcome # "ok"
        /\ ~result.value.divided

\* the call just made is H(T, N, d) with d > 0
HOfValidDistance == result.op = "H" /\ RLt(Rat(0), result.d)

\* C11: H(T, N, d) with d > 0 raises ValueError exactly when N[2] < 0, and
\* returns a matrix when N[2] >= 0, N[2] = 0 included.
C11_NormalTest ==
    HOfValidDistance =>
        /\ (result.value.outcome = "ValueError") <=> (result.N[3][1] < 0)
        /\ (result.N[3][1] >= 0) => result.value.outcome = "ok"

C11_Witness ==
    /\ HOfValidDistance
    /\ result.N[3] = Rat(0)
    /\ result.value.outcome = "ok"

\* the outer product t @ N.T of a column t and a row N.T
Outer(t, N) == Matrix(3, 3, LAMBDA i, j : RMul(t[i], N[j]))

\* K @ (R + (1/d) * t @ N.T) @ inv(K) for the rotation R and translation t
\* of the inverse of T
PlaneHomography(c, T, N, d) ==
    Let2(Transpose(T.R), Outer(ScaleVec(RDiv(Rat(1), d), NegVec(MatVec(Transpose(T.R), T.t))), N),
         LAMBDA R, tN :
            MatMul(MatMul(K(c), Matrix(3, 3, LAMBDA i, j : RAdd(R[i][j], tN[i][j]))),
                   Inv3(K(c))))

\* C12: for valid inputs H(T, N, d) is K @ (R + (1/d) * t @ N.T) @ inv(K)
\* divided by its [2,2] element, with t @ N.T the outer product, and so has
\* H[2,2] = 1.
\* This does not hold: T.t and N are 1-D arrays, `T.t @ N` is their scalar
\* product, and it is added to every element of R.
C12_HomographyFormula ==
    (result.op = "H" /\ result.value.outcome = "ok") =>
        Let(PlaneHomography(camera, result.T, result.N, result.d), LAMBDA HH :
            /\ result.value.value = DivMat(HH, HH[3][3])
            /\ result.value.value[3][3] = Rat(1))

(***************************************************************************)
(* Properties of invH.                                                     *)
(***************************************************************************)
\* Hm is a multiple of a rotation: the singular values of Hm.T @ Hm are equal
PureRotation(Hm) ==
    Let(MatMul(Transpose(Hm), Hm), LAMBDA HtH :
        HtH = Scale(HtH[1][1], Eye(3, 3)))

\* C13: for a homography of a pure rotation invH returns a result that
\* differs from what it returns for a homography that is none.
\* This does not hold: invH raises IndexError for every homography.
C13_PureRotationFlagged ==
    (result.op = "invH" /\ PureRotation(result.value.H)) =>
        /\ result.value.outcome = "ok"
        /\ result.value.value # invH(camera, ShearH, result.K).value

\* C14: invH raises an error for a homography with H[2,2] = 0, and for any
\* other works on the homography divided by H[2,2].
\* This does not hold: invH does not look at H[2,2].
C14_NormalisedFirst ==
    result.op = "invH" =>
        /\ result.H[3][3] = Rat(0) => result.value.outcome # "ok"
        /\ result.H[3][3] # Rat(0) =>
                result.value.H =
                    Let(IF result.K = None THEN Eye(3, 3) ELSE result.K[1], LAMBDA Kk :
                        MatMul(MatMul(Inv3(Kk), DivMat(result.H, result.H[3][3])), Kk))

(***************************************************************************)
(* Properties of decomposeE.                                               *)
(***************************************************************************)
DecomposedE == result.op = "decomposeE" /\ result.kind = "ndarray"

\* the four candidate poses, in the order (R1, t), (R1, -t), (R2, t), (R2, -t)
CandidatePoses ==
    Let(result.dec, LAMBDA d :
        << SE3Inv(SE3Rt(d.R1, d.t)), SE3Inv(SE3Rt(d.R1, NegVec(d.t))),
           SE3Inv(SE3Rt(d.R2, d.t)), SE3Inv(SE3Rt(d.R2, NegVec(d.t))) >>)

\* the image of the world point given to decomposeE, for a camera pose
ImageUnder(pose) ==
    project_point(camera, <<result.P>>, <<pose>>, None, TRUE, FALSE).x[1]

\* the depth of that point, for a camera pose
DepthUnder(pose) == image_homogeneous(C(camera, <<pose>>), result.P, None)[3]

NotNaNImage(p) == ~IsNaN(p[1]) /\ ~IsNaN(p[2])

\* C15: decomposeE(E, P) returns the first of the four candidates, in the
\* order (R1, t), (R1, -t), (R2, t), (R2, -t), that does not project P to
\* NaN, and the pose it returns projects P to an image point without NaN.
\* This does not hold: only the first image coordinate is tested, and a
\* point of depth 0 has the image (inf, NaN).
C15_FirstGoodCandidate ==
    DecomposedE =>
        Let(CandidatePoses, LAMBDA poses :
            Let({i \in 1..4 : NotNaNImage(ImageUnder(poses[i]))}, LAMBDA passing :
                /\ passing # {} =>
                        result.value = <<poses[CHOOSE i \in passing :
                                                \A j \in passing : i <= j]>>
                /\ result.value # None => NotNaNImage(ImageUnder(result.value[1]))))

\* C16: decomposeE(E, P) returns None, and none of the candidates, when
\* every candidate has P behind the camera, its image being NaN.
C16_NoPoseWhenAllBehind ==
    DecomposedE =>
        Let(CandidatePoses, LAMBDA poses :
            /\ (\A i \in 1..4 : RLt(DepthUnder(poses[i]), Rat(0))) =>
                    result.value = None
            /\ (\A i \in 1..4 : ImageUnder(poses[i]) = <<NaN, NaN>>) =>
                    /\ result.value = None
                    /\ \A i \in 1..4 : result.value # <<poses[i]>>)

C16_Witness ==
    /\ DecomposedE
    /\ result.dec.R1 # Eye(3, 3)
    /\ \A i \in 1..4 : RLt(DepthUnder(CandidatePoses[i]), Rat(0))
    /\ result.value = None

(***************************************************************************)
(* Properties of visjac_p.                                                 *)
(***************************************************************************)
Jacobian == result.op = "visjac_p" /\ result.outcome = "ok"

\* the rows 2i and 2i+1 of the matrix returned, for the i-th column
\* (i counted from 1 here)
BlockOf(i) == <<result.value[2 * i - 1], result.value[2 * i]>>

\* column j of a 2x6 block
ColumnOf(B, j) == <<B[1][j], B[2][j]>>

\* the depth of the i-th point: the i-th element of Z, or Z itself when it
\* is a scalar
DepthOfPoint(i) == IF Len(result.Z) = 1 THEN result.Z[1] ELSE result.Z[i]

\* C17: visjac_p(uv, Z) for N image points returns a matrix of exactly 2N
\* rows of 6 columns, in which the two rows of the i-th pair are the
\* Jacobian of the i-th column of uv computed with the i-th depth; a scalar
\* Z is the depth of every point.
C17_StackedJacobian ==
    Jacobian =>
        Let2(K(camera), Len(result.uv), LAMBDA Kk, N :
            /\ Len(result.value) = 2 * N
            /\ \A r \in 1..(2 * N) : Len(result.value[r]) = 6
            /\ \A i \in 1..N :
                BlockOf(i) = visjac_block(Kk, Inv3(Kk), DepthOfPoint(i), result.uv[i]))

\* three points with three depths that differ: the matrix is 6x6
C17_Witness ==
    /\ Jacobian
    /\ Len(result.uv) = 3
    /\ Len(result.Z) = 3
    /\ result.Z[1] # result.Z[2]
    /\ Len(result.value) = 6
    /\ BlockOf(1) # BlockOf(2)

\* C18: visjac_p raises ValueError, and returns no matrix, whenever Z has
\* more than one element and its length is not the number of columns of uv.
C18_MismatchedDepths ==
    (/\ result.op = "visjac_p"
     /\ Len(result.Z) > 1
     /\ Len(result.Z) # Len(result.uv))
        => (result.outcome = "ValueError" /\ result.value = None)

\* three depths for two points
C18_Witness ==
    /\ result.op = "visjac_p"
    /\ Len(result.Z) = 3
    /\ Len(result.uv) = 2
    /\ result.outcome = "ValueError"

\* the columns of uv that are the principal point of the camera
AtPrincipalPoint ==
    {i \in 1..Len(result.uv) :
        result.uv[i] = camera.pp /\ DepthOfPoint(i) # Rat(0)}

Zero2 == <<Rat(0), Rat(0)>>

\* C19, as the claim states it: for an image point at the principal point
\* and a depth that is not 0, columns 3, 4, 5 and 6 of its 2x6 block are
\* zero.
C19_NoRotationalCoupling ==
    Jacobian =>
        \A i \in AtPrincipalPoint :
            \A j \in 3..6 : ColumnOf(BlockOf(i), j) = Zero2

\* C19, as the code has it: for an image point at the principal point and a
\* depth that is not 0, column 3 (translation along z) and column 6
\* (rotation about z) of its 2x6 block are zero, column 4 is (0, fv/rhov)
\* and column 5 is (-fu/rhou, 0).
C19_PrincipalPointBlock ==
    Jacobian =>
        \A i \in AtPrincipalPoint :
            Let(BlockOf(i), LAMBDA B :
                /\ ColumnOf(B, 3) = Zero2
                /\ ColumnOf(B, 6) = Zero2
                /\ ColumnOf(B, 4) = <<Rat(0), RDiv(camera.fv, camera.rhov)>>
                /\ ColumnOf(B, 5) = <<RNeg(RDiv(camera.fu, camera.rhou)), Rat(0)>>)

\* a Jacobian of the principal point alone, whose columns 4 and 5 are not
\* zero
C19_Witness ==
    /\ Jacobian
    /\ result.uv = <<camera.pp>>
    /\ AtPrincipalPoint = {1}
    /\ ColumnOf(BlockOf(1), 4) # Zero2
    /\ ColumnOf(BlockOf(1), 5) # Zero2
    /\ ColumnOf(BlockOf(1), 6) = Zero2

(***************************************************************************)
(* Properties of plucker.                                                  *)
(***************************************************************************)
\* a - b for two vectors
VecSub(a, b) == Let2(a, b, LAMBDA x, y : Vector(Len(x), LAMBDA i : RSub(x[i], y[i])))

\* Line3.pp: the point of the line nearest the origin
Line3_pp(L) ==
    Let2(Cross(L.v, L.w), Dot(L.w, L.w), LAMBDA n, d :
        Vector(3, LAMBDA i : RDiv(n[i], d)))

\* Line3.contains(x): x is a point of the line
Line3_contains(L, x) ==
    Cross(VecSub(x, Line3_pp(L)), L.w) = <<Rat(0), Rat(0), Rat(0)>>

\* the centre of the camera: the origin of its frame
CameraCentre == camera.pose.t

\* the coordinate of the world point P along the optical axis of the camera
DepthOf(P) == MatVec(SE3A(SE3Inv(camera.pose)), E2H(P))[3]

\* the columns of the array projected that are strictly in front of the
\* camera
InFront == {i \in 1..Len(result.P) : RLt(Rat(0), DepthOf(result.P[i]))}

\* P = centre + lambda * direction for some lambda > 0
OnRayFromCentre(L, P) ==
    Let(VecSub(P, CameraCentre), LAMBDA d :
        /\ Cross(d, L.w) = <<Rat(0), Rat(0), Rat(0)>>
        /\ RLt(Rat(0), Dot(d, L.w)))

\* C20: for a camera of any pose and a world point P strictly in front of
\* it, the line plucker(project_point(P)) passes through the centre of the
\* camera and through P, and P = centre + lambda * direction for some
\* lambda > 0.
C20_RayThroughCentreAndPoint ==
    result.op = "plucker" =>
        \A i \in InFront :
            Let(result.value[i], LAMBDA L :
                /\ Line3_contains(L, CameraCentre)
                /\ Line3_contains(L, result.P[i])
                /\ OnRayFromCentre(L, result.P[i]))

\* a ray through a point in front of a camera that is turned and away from
\* the origin
C20_Witness ==
    /\ result.op = "plucker"
    /\ InFront # {}
    /\ camera.pose.R # Eye(3, 3)
    /\ CameraCentre # <<Rat(0), Rat(0), Rat(0)>>
    /\ \A i \in InFront : Line3_contains(result.value[i], result.P[i])

\* K^-1 @ [p; 1]: the direction of the ray of the image point p in the
\* frame of the camera
DirectionInCamera(p) == MatVec(Inv3(K(camera)), E2H(p))

\* C21, as the claim states it: for every pose of the camera and every
\* image point p, the direction of the ray plucker returns is
\* inv(K) * [p; 1].
C21_DirectionInCameraFrame ==
    result.op = "plucker" =>
        \A i \in 1..Len(result.points) :
            result.value[i].w = DirectionInCamera(result.points[i])

\* C21, as the code has it: for every pose of the camera and every image
\* point p, the direction of the ray plucker returns is R * inv(K) * [p; 1],
\* where R is the rotation of the pose of the camera: the direction is given
\* in the world frame.
C21_DirectionInWorldFrame ==
    result.op = "plucker" =>
        \A i \in 1..Len(result.points) :
            result.value[i].w =
                MatVec(camera.pose.R, DirectionInCamera(result.points[i]))

\* the ray of a finite image point of a camera that is turned: its
\* direction is not inv(K) * [p; 1]
C21_Witness ==
    /\ result.op = "plucker"
    /\ camera.pose.R # Eye(3, 3)
    /\ \A j \in 1..2 : IsFinite(result.points[1][j])
    /\ result.value[1].w # DirectionInCamera(result.points[1])
    /\ result.value[1].w = MatVec(camera.pose.R, DirectionInCamera(result.points[1]))

(***************************************************************************)
(* Properties of points2C.                                                 *)
(***************************************************************************)
\* the world points lie in one plane (fewer than four always do)
Coplanar(P) ==
    \A i \in 4..Len(P) :
        Det3(<<VecSub(P[2], P[1]), VecSub(P[3], P[1]), VecSub(P[i], P[1])>>) = Rat(0)

\* C22: points2C(P, p) fails with an error, and returns no calibration
\* matrix, when fewer than 6 correspondences are given or when the system is
\* rank-deficient, as it is when all world points are coplanar.
C22_DegenerateCalibrationFails ==
    (/\ result.op = "points2C"
     /\ (Len(result.P) < 6 \/ Coplanar(result.P)))
        => (result.outcome # "ok" /\ result.value = None)

(***************************************************************************)
(* Properties of project_line and project_conic.                           *)
(***************************************************************************)
NonCentralClasses == {"FishEyeCamera", "CatadioptricCamera", "SphericalCamera"}

\* C23: project_line and project_conic raise NotImplementedError for any
\* argument on a FishEyeCamera, CatadioptricCamera or SphericalCamera; on a
\* CentralCamera project_line of a Line3 returns one homogeneous line per
\* line given, each scaled so that its largest-magnitude coefficient has
\* absolute value 1.
C23_LineProjection ==
    /\ (result.op \in {"project_line", "project_conic"}
            /\ result.class \in NonCentralClasses)
        => (result.outcome = "NotImplementedError" /\ result.value = None)
    /\ (result.op = "project_line" /\ result.class = "CentralCamera"
            /\ result.arg.cls = "Line3")
        => /\ result.outcome = "ok"
           /\ Len(result.value) = Len(result.arg.data)
           /\ \A i \in 1..Len(result.value) : MaxAbs(result.value[i]) = Rat(1)

\* the array given to decomposeC is 3x4
IsShape34(Cin) == Len(Cin) = 3 /\ Len(Cin[1]) = 4

\* C24: decomposeC raises ValueError for an array whose shape is not (3, 4)
\* before the SVD is computed, CentralCamera.project_conic raises ValueError
\* for an argument that is not a 4x4 array before C is multiplied, and
\* CentralCamera.project_line raises ValueError for an argument that is not
\* a Line3; in each case nothing is returned.
C24_ShapeErrorsFirst ==
    /\ (result.op = "decomposeC" /\ ~IsShape34(result.C))
        => result.value = [outcome |-> "ValueError", camera |-> None]
    /\ (result.op = "project_conic" /\ result.class = "CentralCamera"
            /\ ~(/\ result.arg.cls = "ndarray"
                 /\ Len(result.arg.data) = 4
                 /\ \A i \in 1..4 : Len(result.arg.data[i]) = 4))
        => (result.outcome = "ValueError" /\ result.value = None)
    /\ (result.op = "project_line" /\ result.class = "CentralCamera"
            /\ result.arg.cls # "Line3")
        => (result.outcome = "ValueError" /\ result.value = None)

\* project_conic of an array of 4 rows and 3 columns
C24_Witness ==
    /\ result.op = "project_conic"
    /\ result.class = "CentralCamera"
    /\ result.arg = ndarray(Eye(4, 3))
    /\ result.outcome = "ValueError"

(***************************************************************************)
(* Properties of the state of the object.                                  *)
(***************************************************************************)
\* K written out from the attributes the camera has now
IntrinsicsNow ==
    << <<RDiv(camera.fu, camera.rhou), Rat(0), camera.pp[1]>>,
       <<Rat(0), RDiv(camera.fv, camera.rhov), camera.pp[2]>>,
       <<Rat(0), Rat(0), Rat(1)>> >>

\* [I|0] * inverse(T) written out: [R' | -R' t]
WorldToCamera(T) ==
    Let2(Transpose(T.R), T.t, LAMBDA Rt, t :
        Let(NegVec(MatVec(Rt, t)), LAMBDA d :
            Vector(3, LAMBDA i : Append(Rt[i], d[i]))))

\* C25: after any sequence of assignments to pose, f, pp and imagesize,
\* K is built from the current fu, fv, rhou, rhov, u0, v0 (upper-triangular,
\* K[2,2] = 1), C() equals K * [I|0] * inverse(current pose), and C(T) equals
\* the same expression with T in place of the current pose.
C25_CameraMatrixCurrent ==
    /\ result.op = "K" =>
        /\ result.value = IntrinsicsNow
        /\ \A i \in 1..3 : \A j \in 1..3 : i > j => result.value[i][j] = Rat(0)
        /\ result.value[3][3] = Rat(1)
    /\ result.op = "C" =>
        result.value =
            MatMul(IntrinsicsNow,
                   WorldToCamera(IF result.T = None THEN camera.pose ELSE result.T[1]))

\* C(T) of a camera whose image size was assigned after its principal point
\* was set, for a T that is not its pose
C25_Witness ==
    /\ result.op = "C"
    /\ result.T # None
    /\ result.T[1] # camera.pose
    /\ camera.imagesize = <<Rat(4), Rat(2)>>
    /\ camera.pp = <<Rat(2), Rat(2)>>
    /\ result.value # C(camera, None)

\* the same direction from the origin: the two points have the same angles
SameDirection(a, b) ==
    /\ Cross(a, b) = <<Rat(0), Rat(0), Rat(0)>>
    /\ RLt(Rat(0), Dot(a, b))

\* C26: for the classes that are not central, project_point(P) moves the
\* points by the pose of the camera and project_point(P, pose=T) by T: the
\* image of P is the image, by a camera at the identity pose, of P moved
\* into the frame of that pose.
C26_NonCentralPose ==
    result.op = "project_point_other" =>
        Let(IF result.pose = None THEN result.object.pose ELSE result.pose[1],
            LAMBDA T :
                Let(MovePoints(SE3Inv(T), result.P), LAMBDA expected :
                    \A i \in 1..Len(result.P) :
                        SameDirection(result.value[i].phi_theta_of, expected[i])))

\* what move returns for the camera c: c with the pose T, the name given or
\* the name of c followed by '-moved', and no axes handle
MovedCopy(c, T, name) ==
    [name      |-> IF name = None THEN c.name \o <<"-moved">> ELSE name[1],
     camtype   |-> c.camtype,
     rhou      |-> c.rhou,
     rhov      |-> c.rhov,
     pp        |-> c.pp,
     imagesize |-> c.imagesize,
     pose      |-> T,
     noise     |-> c.noise,
     ax        |-> None,
     fu        |-> c.fu,
     fv        |-> c.fv]

\* C27: move(T) and project_point(P, pose=T) leave the camera they are
\* called on as it was (pose, name, intrinsics, axes handle); move returns
\* another camera whose pose is T, whose name is the name given or the
\* original name followed by '-moved', whose axes handle is None, and whose
\* other parameters are those of the original.
C27_CallsLeaveCameraUnchanged ==
    [][/\ result'.op = "move" =>
            /\ camera' = camera
            /\ result'.value = MovedCopy(camera, result'.T, result'.name)
       /\ (result'.op = "project_point" /\ result'.pose # None) =>
            camera' = camera]_vars

\* a camera that has an axes handle and a pose that is not T, just moved
C27_Witness ==
    /\ result.op = "move"
    /\ camera.ax # None
    /\ camera.pose # result.T
    /\ result.value.ax = None
    /\ result.value.pose = result.T
    /\ result.name = None
    /\ result.value.name = camera.name \o <<"-moved">>

\* C28: for a camera made without a principal point, the principal point is
\* the centre of the image plane (imagesize / 2) after construction and
\* after any sequence of assignments to imagesize, that of disp included, as
\* long as pp is not assigned.
C28_DefaultPrincipalPoint ==
    camera.pp = <<RDiv(camera.imagesize[1], Rat(2)), RDiv(camera.imagesize[2], Rat(2))>>

\* skew(t21) * R21 for T21 = inverse(pose2) * pose1, written out:
\* R21 = R2' R1 and t21 = R2' (t1 - t2)
EssentialOfPoses(pose1, pose2) ==
    Let(Transpose(pose2.R), LAMBDA R2t :
        MatMul(Skew(MatVec(R2t, VecSub(pose1.t, pose2.t))), MatMul(R2t, pose1.R)))

\* C29: for two CentralCameras C1 and C2, C1.E(C2) equals C1.E(T) for
\* T = inverse(C1.pose) * C2.pose, the motion from the first view to the
\* second; both equal skew(t21) * R21 with T21 = inverse(C2.pose) * C1.pose.
C29_EssentialOfRelativePose ==
    result.op = "E, E" =>
        /\ result.ofCamera.outcome = "ok"
        /\ result.ofSE3.outcome = "ok"
        /\ result.ofCamera.value = result.ofSE3.value
        /\ result.ofCamera.value = EssentialOfPoses(camera.pose, result.other.pose)

\* two cameras one of which is turned and away from the origin, whose
\* relative motion is no pure translation
C29_Witness ==
    /\ result.op = "E, E"
    /\ camera.pose.R # Eye(3, 3)
    /\ camera.pose.t # Zero3
    /\ result.T.R # Eye(3, 3)
    /\ result.ofSE3.value = result.ofCamera.value
    /\ result.ofSE3.value # MatMul(Skew(result.T.t), result.T.R)

\* the two components of the attribute that the assignment named op sets
ComponentsOf(c, op) ==
    IF op = "f" THEN <<c.fu, c.fv>>
    ELSE IF op = "pp" THEN c.pp
    ELSE c.imagesize

\* C30: an assignment of a value that is no string to name or camtype raises
\* TypeError, an assignment of a vector whose length is neither 1 nor 2 to
\* imagesize, pp or f raises ValueError, and after the failed assignment
\* every attribute of the camera has the value it had before; a vector of
\* length 1 assigned to imagesize, pp or f sets both components to its
\* element.
C30_FailedAssignments ==
    [][/\ (result'.op \in {"name", "camtype"} /\ result'.arg.type # "str") =>
            (result'.outcome = "TypeError" /\ camera' = camera)
       /\ (result'.op \in {"imagesize", "pp", "f"} /\ Len(result'.arg) \notin {1, 2}) =>
            (result'.outcome = "ValueError" /\ camera' = camera)
       /\ (result'.op \in {"imagesize", "pp", "f"} /\ Len(result'.arg) = 1) =>
            /\ result'.outcome = "ok"
            /\ ComponentsOf(camera', result'.op) = <<result'.arg[1], result'.arg[1]>>]_vars

\* a vector of 3 elements has just been assigned to f, on a camera whose
\* two focal lengths differ
C30_Witness ==
    /\ result.op = "f"
    /\ Len(result.arg) = 3
    /\ result.outcome = "ValueError"
    /\ camera.fu # camera.fv

====
